---- MODULE Spec2Model ----
(***************************************************************************)
(* Model of the sd-public-safety batch pipeline:                           *)
(*   pipeline/ingest.py     raw-artifact cache, paginated and streamed     *)
(*                          fetches, ingest()                              *)
(*   pipeline/transform.py  the three canonicalization tracks, the         *)
(*                          aggregation views                              *)
(*   pipeline/build.py      the stages of one pipeline run                 *)
(*   pipeline/validate.py   the checks of validate()                       *)
(*   api/queries.py         the predicates and statements of the query     *)
(*                          functions                                      *)
(*   dashboard/app.py       the statements the dashboard builds            *)
(***************************************************************************)
EXTENDS Integers, Sequences, FiniteSets

(***************************************************************************)
(* Bounds of the model.                                                    *)
(***************************************************************************)
\* the largest number of rows a remote paginated dataset holds
MaxRows == 4
\* SODA_PAGE_SIZE (50_000 in ingest.py:18), scaled down
PageSize == 2
\* number of years in CFS_YEARS = range(2015, CURRENT_YEAR + 1), scaled down
NumYears == 1
\* number of chunks r.iter_bytes() yields for one streamed file
NumChunks == 2
\* pipeline runs (invocations of ingest) in one behaviour
MaxRuns == 2

VARIABLES
    \* ---- pipeline/ingest.py ----
    n,          \* number of rows of each remote paginated dataset
    fs,         \* RAW_DIR: source -> [exists, data]
    fsAtStart,  \* fs when the current run of ingest() started
    runs,       \* runs of ingest() started so far
    force,      \* the force argument of the current run
    pc,         \* "idle" | "ingest" | "done" | "raised" | "crashed"
    idx,        \* the source ingest() is at (1..NSources)
    fpc,        \* position inside the fetch: "start" | "page" | "write" | "stream"
    offset,     \* _soda_fetch: offset
    all_rows,   \* _soda_fetch: all_rows
    reqs,       \* source -> the page requests issued for it in this run
    resp,       \* source -> status of the last response in this run (NoResp: none)
    paths,      \* ingest: paths
    \* ---- pipeline/transform.py ----
    rawCrime,   \* table raw_crime (cibrs_group_a.json), rows in input order
    rawArrests, \* table raw_arrests (cibrs_group_b.json), rows in input order
    csvCfs,     \* the data rows of the cfs_*.csv files, in input order
    rawCfs,     \* table raw_cfs (all cfs_*.csv), rows in input order
    refCallType, \* call_type_desc.csv: [exists, rows]
    refDispo,   \* dispo_code_desc.csv: [exists, rows]
    canon,      \* PROCESSED_DIR: "crime" | "arrests" | "cfs" -> [exists, rows]
    aggs,       \* AGGREGATED_DIR: names of the views written
    tpc,        \* transform(): "idle" | "crime" | "arrests" | "cfs" | "agg" | "done"
    passes,     \* runs of transform() started so far
    prev,       \* canon as the previous run of transform() left it
    \* ---- pipeline/build.py: stages of a run and the files they leave ----
    bpc,        \* "idle" | "ingest" | "crime" | "arrests" | "cfs" | "agg" |
                \* "validate" | "done" | "raised"
    entry,      \* the entry point of the current run: "build" | "transform"
    rawDisk,    \* the domains whose raw artifact is in RAW_DIR
    procFile,   \* PROCESSED_DIR: domain -> [st, run]
    aggFile,    \* AGGREGATED_DIR: view name -> [st, run]
    builds,     \* runs started so far
    trace,      \* the stages the current run has completed, in order
    fileIssues, \* validate(): issues added by checks 1 and 15
    \* ---- _build_aggregations: contents of the views ----
    tbl,        \* the canonical tables the views are computed from
    view,       \* view name -> its rows (group key -> metrics)
    vpc,        \* "idle" | "done"
    \* ---- pipeline/validate.py ----
    CURRENT_YEAR, \* datetime.now().year when the module was loaded
    report,     \* validate(): the results printed so far, [check, status]
    issues,     \* validate(): issues
    valpc,      \* "idle" | "done"
    \* ---- api/queries.py, dashboard/app.py ----
    req,        \* the call made: function and arguments
    sql         \* the statement built for it (a sequence of tokens)

ingestVars == <<n, fs, fsAtStart, runs, force, pc, idx, fpc, offset, all_rows,
                reqs, resp, paths>>

transformVars == <<rawCrime, rawArrests, csvCfs, rawCfs, refCallType, refDispo,
                   canon, aggs, tpc, passes, prev>>

buildVars == <<bpc, entry, rawDisk, procFile, aggFile, builds, trace,
               fileIssues>>

viewVars == <<tbl, view, vpc>>

checkVars == <<CURRENT_YEAR, report, issues, valpc>>

queryVars == <<req, sql>>

vars == <<ingestVars, transformVars, buildVars, viewVars, checkVars, queryVars>>

\* An empty table, and a table (file) that does not exist.
NoRows == <<>>
NoTable == [exists |-> FALSE, rows |-> NoRows]

\* The transform stage has not run and has no input (ingest-only behaviours).
TransformUnused ==
    /\ rawCrime = <<>>
    /\ rawArrests = <<>>
    /\ csvCfs = <<>>
    /\ rawCfs = <<>>
    /\ refCallType = NoTable
    /\ refDispo = NoTable
    /\ canon = [d \in {"crime", "arrests", "cfs"} |-> NoTable]
    /\ prev = [d \in {"crime", "arrests", "cfs"} |-> NoTable]
    /\ aggs = {}
    /\ tpc = "idle"
    /\ passes = 0

\* The views _build_aggregations writes from each canonical file.
CrimeViews == {"crime_overview_monthly", "crime_by_type", "crime_by_zip",
               "crime_by_agency", "victim_demographics", "domestic_violence",
               "temporal_patterns", "map_points", "yearly_summary",
               "crime_by_city"}
ArrestViews == {"arrests_by_type"}
\* a faulty variant of CfsViews: cfs_temporal is not written
CfsViews_NoTemporal == {"cfs_monthly", "cfs_by_beat"}
CfsViews == {"cfs_monthly", "cfs_by_beat", "cfs_temporal"}
AllViews == CrimeViews \cup ArrestViews \cup CfsViews

\* A file of PROCESSED_DIR or AGGREGATED_DIR: absent, complete or cut short,
\* and the run that wrote it.
AbsentFile == [st |-> "absent", run |-> 0]
CompleteFile(k) == [st |-> "complete", run |-> k]
PartialFile(k) == [st |-> "partial", run |-> k]

\* No pipeline run is followed (behaviours of a single stage).
BuildUnused ==
    /\ bpc = "idle"
    /\ entry = "build"
    /\ rawDisk = {}
    /\ procFile = [d \in {"crime", "arrests", "cfs"} |-> AbsentFile]
    /\ aggFile = [v \in AllViews |-> AbsentFile]
    /\ builds = 0
    /\ trace = <<>>
    /\ fileIssues = [check1 |-> 0, check15 |-> 0]

\* validate() is not called.
CheckUnused ==
    /\ CURRENT_YEAR = 0
    /\ report = <<>>
    /\ issues = 0
    /\ valpc = "idle"

\* No query is built.
NoCall ==
    [layer |-> "none", fn |-> "", year_min |-> -1, year_max |-> -1,
     agency |-> <<>>, crime_against |-> <<>>, priority |-> -1,
     agencies |-> <<>>, categories |-> <<>>, cities |-> <<>>]
NoStatement == [view |-> "", where |-> <<>>, text |-> <<>>]

QueryUnused ==
    /\ req = NoCall
    /\ sql = NoStatement

\* No view contents are computed.
ViewsUnused ==
    /\ tbl = [d \in {"crime", "arrests", "cfs"} |-> <<>>]
    /\ view = [v \in AllViews |-> <<>>]
    /\ vpc = "idle"

(***************************************************************************)
(* Sources of ingest(), in the order ingest() fetches them.                *)
(*   1            cibrs_group_a.json   (_soda_fetch, no filter)            *)
(*   2            cibrs_group_b.json   (_soda_fetch, offense-code filter)  *)
(*   3..2+NumYears  cfs_<year>.csv     (_csv_download)                     *)
(*   then         call_type_desc.csv, dispo_code_desc.csv (_csv_download)  *)
(***************************************************************************)
NumRefFiles == 2
NSources == 2 + NumYears + NumRefFiles
SourceIds == 1..NSources
GROUP_A == 1
GROUP_B == 2
Kind(s) == IF s <= 2 THEN "soda" ELSE "csv"
CfsYearSources == {s \in SourceIds : s > 2 /\ s <= 2 + NumYears}

GROUP_B_CODES == {"90D", "90C", "90B", "90E"}

\* the $where parameter ingest() passes to _soda_fetch for source s
WhereOf(s) == IF s = GROUP_B THEN "codes" ELSE "none"

Min(a, b) == IF a < b THEN a ELSE b

\* The remote dataset behind source s, in its stable :id order.
Remote(s) ==
    [i \in 1..n |->
        [id |-> i,
         code |-> IF s = GROUP_B
                  THEN (IF i % 2 = 1 THEN "90D" ELSE "90Z")
                  ELSE "13A"]]

RECURSIVE SelectSeq2(_, _)
SelectSeq2(seq, where) ==
    IF seq = <<>> THEN <<>>
    ELSE LET rest == SelectSeq2(Tail(seq), where)
         IN IF where = "none" \/ Head(seq).code \in GROUP_B_CODES
            THEN <<Head(seq)>> \o rest
            ELSE rest

\* What the server holds for source s under the filter `where`.
Matching(s, where) == SelectSeq2(Remote(s), where)

\* The server's answer to $limit, $offset, $order=:id, $where.
ServerPage(s, where, off, limit) ==
    LET m == Matching(s, where)
    IN SubSeq(m, off + 1, Min(off + limit, Len(m)))

\* json.dumps of a list of rows: an opening bracket, the rows, a closing bracket.
JsonOpen == [id |-> 0, code |-> "["]
JsonClose == [id |-> 0, code |-> "]"]
JsonDumps(rows) == <<JsonOpen>> \o rows \o <<JsonClose>>

\* The body of a streamed file: NumChunks chunks.
CsvBody == [k \in 1..NumChunks |-> [id |-> k, code |-> "chunk"]]

\* The complete content a finished fetch of source s leaves in the cache.
Payload(s) ==
    IF Kind(s) = "soda" THEN JsonDumps(Matching(s, WhereOf(s))) ELSE CsvBody

Absent == [exists |-> FALSE, data |-> <<>>]
File(d) == [exists |-> TRUE, data |-> d]

NoResp == -1
\* 0 stands for a transport error (no response at all)
FailStatuses == {0, 403, 500}

----------------------------------------------------------------------------
(***************************************************************************)
(* ingest.py                                                               *)
(***************************************************************************)
InitIngest ==
    \* an empty dataset, one row short of the largest, and the largest
    /\ n \in {0, MaxRows - 1, MaxRows}
    /\ fs = [s \in SourceIds |-> Absent]
    /\ fsAtStart = [s \in SourceIds |-> Absent]
    /\ runs = 0
    /\ force = FALSE
    /\ pc = "idle"
    /\ idx = 1
    /\ fpc = "start"
    /\ offset = 0
    /\ all_rows = <<>>
    /\ reqs = [s \in SourceIds |-> <<>>]
    /\ resp = [s \in SourceIds |-> NoResp]
    /\ paths = <<>>
    /\ TransformUnused
    /\ BuildUnused
    /\ ViewsUnused
    /\ CheckUnused
    /\ QueryUnused

\* build.main / ingest(force): a new run begins.
StartRun(f) ==
    /\ pc # "ingest"
    /\ runs < MaxRuns
    /\ runs' = runs + 1
    /\ force' = f
    /\ pc' = "ingest"
    /\ idx' = 1
    /\ fpc' = "start"
    /\ offset' = 0
    /\ all_rows' = <<>>
    /\ reqs' = [s \in SourceIds |-> <<>>]
    /\ resp' = [s \in SourceIds |-> NoResp]
    /\ paths' = <<>>
    /\ fsAtStart' = fs
    /\ UNCHANGED <<n, fs>>
    /\ UNCHANGED <<transformVars, buildVars, viewVars, checkVars, queryVars>>

\* The fetch of source idx returns p (TRUE: out_path, FALSE: None) to ingest().
Return(p) ==
    /\ paths' = IF p THEN Append(paths, idx) ELSE paths
    /\ idx' = IF idx = NSources THEN idx ELSE idx + 1
    /\ pc' = IF idx = NSources THEN "done" ELSE "ingest"
    /\ fpc' = "start"
    /\ offset' = 0
    /\ all_rows' = <<>>

\* An exception leaves the fetch of source idx and, uncaught, ingest().
Raise ==
    /\ pc' = "raised"
    /\ fpc' = "start"
    /\ offset' = 0
    /\ all_rows' = <<>>
    /\ UNCHANGED <<idx, paths>>

\* a faulty variant of CacheHit: the force flag is ignored
CacheHit_IgnoreForce == fs[idx].exists

\* if out_path.exists() and not force: return out_path
CacheHit == fs[idx].exists /\ ~force

SodaCached ==
    /\ pc = "ingest" /\ Kind(idx) = "soda" /\ fpc = "start"
    /\ CacheHit
    /\ Return(TRUE)
    /\ UNCHANGED <<n, fs, fsAtStart, runs, force, reqs, resp>>
    /\ UNCHANGED <<transformVars, buildVars, viewVars, checkVars, queryVars>>

SodaEnter ==
    /\ pc = "ingest" /\ Kind(idx) = "soda" /\ fpc = "start"
    /\ ~CacheHit
    /\ fpc' = "page"
    /\ offset' = 0
    /\ all_rows' = <<>>
    /\ UNCHANGED <<n, fs, fsAtStart, runs, force, pc, idx, reqs, resp, paths>>
    /\ UNCHANGED <<transformVars, buildVars, viewVars, checkVars, queryVars>>

Request(st, got) ==
    [limit |-> PageSize, offset |-> offset, order |-> ":id",
     where |-> WhereOf(idx), status |-> st, got |-> got]

\* a faulty variant of NextOffset: the offset advances one row too far
NextOffset_SkipsRow(off) == off + PageSize + 1

\* a faulty variant of NextOffset: the offset advances by two pages
NextOffset_TwoPages(off) == off + 2 * PageSize

\* offset += SODA_PAGE_SIZE
NextOffset(off) == off + PageSize

\* One turn of the while loop with a successful response.
SodaPageOk ==
    /\ pc = "ingest" /\ Kind(idx) = "soda" /\ fpc = "page"
    /\ LET batch == ServerPage(idx, WhereOf(idx), offset, PageSize)
       IN /\ reqs' = [reqs EXCEPT ![idx] = Append(@, Request(200, Len(batch)))]
          /\ resp' = [resp EXCEPT ![idx] = 200]
          /\ IF batch = <<>>
             THEN /\ fpc' = "write"
                  /\ UNCHANGED <<all_rows, offset>>
             ELSE /\ all_rows' = all_rows \o batch
                  /\ IF Len(batch) < PageSize
                     THEN fpc' = "write" /\ UNCHANGED offset
                     ELSE fpc' = "page" /\ offset' = NextOffset(offset)
    /\ UNCHANGED <<n, fs, fsAtStart, runs, force, pc, idx, paths>>
    /\ UNCHANGED <<transformVars, buildVars, viewVars, checkVars, queryVars>>

\* client.get raises (transport) or resp.raise_for_status() raises (status).
SodaPageFail(st) ==
    /\ pc = "ingest" /\ Kind(idx) = "soda" /\ fpc = "page"
    /\ reqs' = [reqs EXCEPT ![idx] = Append(@, Request(st, 0))]
    /\ resp' = [resp EXCEPT ![idx] = st]
    /\ Raise
    /\ UNCHANGED <<n, fs, fsAtStart, runs, force>>
    /\ UNCHANGED <<transformVars, buildVars, viewVars, checkVars, queryVars>>

\* out_path.write_text(json.dumps(all_rows)); return out_path
SodaWrite ==
    /\ pc = "ingest" /\ Kind(idx) = "soda" /\ fpc = "write"
    /\ fs' = [fs EXCEPT ![idx] = File(JsonDumps(all_rows))]
    /\ Return(TRUE)
    /\ UNCHANGED <<n, fsAtStart, runs, force, reqs, resp>>
    /\ UNCHANGED <<transformVars, buildVars, viewVars, checkVars, queryVars>>

\* The process dies inside write_text: the file is open under its final name
\* and holds a strict prefix of the text, empty when nothing was flushed yet,
\* cut short when the last flush did not happen.
SodaWriteCrash ==
    /\ pc = "ingest" /\ Kind(idx) = "soda" /\ fpc = "write"
    /\ \E k \in {0, Len(JsonDumps(all_rows)) - 1} :
          fs' = [fs EXCEPT ![idx] = File(SubSeq(JsonDumps(all_rows), 1, k))]
    /\ pc' = "crashed"
    /\ fpc' = "start"
    /\ offset' = 0
    /\ all_rows' = <<>>
    /\ UNCHANGED <<n, fsAtStart, runs, force, idx, reqs, resp, paths>>
    /\ UNCHANGED <<transformVars, buildVars, viewVars, checkVars, queryVars>>

CsvCached ==
    /\ pc = "ingest" /\ Kind(idx) = "csv" /\ fpc = "start"
    /\ CacheHit
    /\ Return(TRUE)
    /\ UNCHANGED <<n, fs, fsAtStart, runs, force, reqs, resp>>
    /\ UNCHANGED <<transformVars, buildVars, viewVars, checkVars, queryVars>>

\* a faulty variant of On403: status 403 is re-raised like any other status
On403_Reraise ==
    /\ Raise
    /\ UNCHANGED fs

\* except httpx.HTTPStatusError: 403 -> return None
On403 ==
    /\ Return(FALSE)
    /\ UNCHANGED fs

\* r.raise_for_status() raises with status 403.
Csv403 ==
    /\ pc = "ingest" /\ Kind(idx) = "csv" /\ fpc = "start"
    /\ ~CacheHit
    /\ resp' = [resp EXCEPT ![idx] = 403]
    /\ On403
    /\ UNCHANGED <<n, fsAtStart, runs, force, reqs>>
    /\ UNCHANGED <<transformVars, buildVars, viewVars, checkVars, queryVars>>

\* httpx.stream raises (transport, st = 0) or raise_for_status raises with
\* another status: re-raised.
CsvRequestFail(st) ==
    /\ pc = "ingest" /\ Kind(idx) = "csv" /\ fpc = "start"
    /\ ~CacheHit
    /\ st # 403
    /\ resp' = [resp EXCEPT ![idx] = st]
    /\ Raise
    /\ UNCHANGED <<n, fs, fsAtStart, runs, force, reqs>>
    /\ UNCHANGED <<transformVars, buildVars, viewVars, checkVars, queryVars>>

\* Status 200: open(out_path, "wb") creates or truncates the file.
CsvOpen ==
    /\ pc = "ingest" /\ Kind(idx) = "csv" /\ fpc = "start"
    /\ ~CacheHit
    /\ resp' = [resp EXCEPT ![idx] = 200]
    /\ fs' = [fs EXCEPT ![idx] = File(<<>>)]
    /\ fpc' = "stream"
    /\ UNCHANGED <<n, fsAtStart, runs, force, pc, idx, offset, all_rows, reqs, paths>>
    /\ UNCHANGED <<transformVars, buildVars, viewVars, checkVars, queryVars>>

\* for chunk in r.iter_bytes(...): f.write(chunk)
CsvChunk ==
    /\ pc = "ingest" /\ Kind(idx) = "csv" /\ fpc = "stream"
    /\ Len(fs[idx].data) < NumChunks
    /\ fs' = [fs EXCEPT ![idx] = File(Append(@.data, CsvBody[Len(@.data) + 1]))]
    /\ UNCHANGED <<n, fsAtStart, runs, force, pc, idx, fpc, offset, all_rows,
                   reqs, resp, paths>>
    /\ UNCHANGED <<transformVars, buildVars, viewVars, checkVars, queryVars>>

\* The connection breaks while streaming: httpx.ReadError, not caught.
CsvStreamFail ==
    /\ pc = "ingest" /\ Kind(idx) = "csv" /\ fpc = "stream"
    /\ Len(fs[idx].data) < NumChunks
    /\ resp' = [resp EXCEPT ![idx] = 0]
    /\ Raise
    /\ UNCHANGED <<n, fs, fsAtStart, runs, force, reqs>>
    /\ UNCHANGED <<transformVars, buildVars, viewVars, checkVars, queryVars>>

\* The stream is exhausted: return out_path.
CsvDone ==
    /\ pc = "ingest" /\ Kind(idx) = "csv" /\ fpc = "stream"
    /\ Len(fs[idx].data) = NumChunks
    /\ Return(TRUE)
    /\ UNCHANGED <<n, fs, fsAtStart, runs, force, reqs, resp>>
    /\ UNCHANGED <<transformVars, buildVars, viewVars, checkVars, queryVars>>

\* The process dies (kill, power loss) while a download is being streamed
\* into the open file.  A death at any other point leaves the cache exactly as
\* the last completed step left it.
Crash ==
    /\ pc = "ingest" /\ Kind(idx) = "csv" /\ fpc = "stream"
    /\ pc' = "crashed"
    /\ fpc' = "start"
    /\ offset' = 0
    /\ all_rows' = <<>>
    /\ UNCHANGED <<n, fs, fsAtStart, runs, force, idx, reqs, resp, paths>>
    /\ UNCHANGED <<transformVars, buildVars, viewVars, checkVars, queryVars>>

NextIngest ==
    \/ \E f \in BOOLEAN : StartRun(f)
    \/ SodaCached
    \/ SodaEnter
    \/ SodaPageOk
    \/ \E st \in FailStatuses : SodaPageFail(st)
    \/ SodaWrite
    \/ SodaWriteCrash
    \/ CsvCached
    \/ Csv403
    \/ \E st \in FailStatuses : CsvRequestFail(st)
    \/ CsvOpen
    \/ CsvChunk
    \/ CsvStreamFail
    \/ CsvDone
    \/ Crash

SpecIngest == InitIngest /\ [][NextIngest]_vars

\* The two paginated fetches of ingest(), up to the first streamed download.
NextSoda ==
    \/ \E f \in BOOLEAN : StartRun(f)
    \/ SodaCached
    \/ SodaEnter
    \/ SodaPageOk
    \/ \E st \in FailStatuses : SodaPageFail(st)
    \/ SodaWrite
    \/ SodaWriteCrash

\* _soda_fetch runs its loop and its write without waiting for anything but
\* the response: a turn of the loop that can be taken is taken, and so is the
\* write after the loop.
SpecSodaFair ==
    /\ InitIngest /\ [][NextSoda]_vars
    /\ WF_vars(SodaPageOk) /\ WF_vars(SodaWrite \/ SodaWriteCrash)

----------------------------------------------------------------------------
(***************************************************************************)
(* Properties of the Source Fetcher.                                       *)
(***************************************************************************)
Range(seq) == {seq[i] : i \in 1..Len(seq)}

\* a request for source s was issued in the current run
Requested(s) == resp[s] # NoResp
\* the fetch of source s has returned or raised in the current run
Finished(s) ==
    /\ pc # "idle"
    /\ \/ s < idx
       \/ s = idx /\ pc \in {"done", "raised"}
\* the fetch of source s raised in the current run
RaisedAt(s) == pc = "raised" /\ idx = s
\* source s is being streamed to disk right now
Streaming(s) == pc = "ingest" /\ idx = s /\ fpc = "stream"

\* C1: whenever no fetch is writing it, a file that exists under an
\* artifact's final name holds the complete payload of a finished fetch
\* (so no interrupted fetch leaves a partial file that a later run without
\* force-refresh would return as cached).
C1_AtomicCache ==
    \A s \in SourceIds :
        (fs[s].exists /\ ~Streaming(s)) => fs[s].data = Payload(s)

\* C2: a source is requested iff force is set or its file was absent; a
\* cache hit issues no request, leaves the file as it was and returns the path.
C2_RequestIffForceOrAbsent ==
    \A s \in SourceIds :
        /\ Requested(s) => (force \/ ~fsAtStart[s].exists)
        /\ Finished(s) => (Requested(s) <=> (force \/ ~fsAtStart[s].exists))
        /\ (Finished(s) /\ ~Requested(s)) =>
              /\ fs[s] = fsAtStart[s]
              /\ s \in Range(paths)
              /\ reqs[s] = <<>>

C2_Witness ==
    /\ pc = "done"
    /\ ~force
    /\ \E s, t \in SourceIds :
          /\ fsAtStart[s].exists /\ ~Requested(s) /\ s \in Range(paths)
          /\ ~fsAtStart[t].exists /\ Requested(t)

\* the fetch of soda source s fetched every page and saved the artifact
Saved(s) == Kind(s) = "soda" /\ Finished(s) /\ Requested(s) /\ ~RaisedAt(s)

RECURSIVE ConcatPages(_, _)
\* the pages the server sent for the logged requests r, in request order
ConcatPages(s, r) ==
    IF r = <<>> THEN <<>>
    ELSE ServerPage(s, Head(r).where, Head(r).offset, Head(r).limit)
            \o ConcatPages(s, Tail(r))

\* C3: the requests of a paginated fetch have offsets 0, P, 2P, ... with the
\* same limit, sort key and filter; the fetch stops at the first page shorter
\* than P; the saved artifact is the concatenation of the received pages,
\* which is every row of the (filtered) remote dataset once, in remote order.
C3_PaginationConcat ==
    \A s \in {GROUP_A, GROUP_B} :
        LET r == reqs[s]
        IN /\ \A i \in 1..Len(r) :
                 /\ r[i].offset = (i - 1) * PageSize
                 /\ r[i].limit = PageSize
                 /\ r[i].order = r[1].order
                 /\ r[i].where = r[1].where
                 /\ i < Len(r) => (r[i].status = 200 /\ r[i].got = PageSize)
           /\ Saved(s) =>
                 /\ Len(r) >= 1
                 /\ r[Len(r)].status = 200
                 /\ r[Len(r)].got < PageSize
                 /\ fs[s].data = JsonDumps(ConcatPages(s, r))
                 /\ fs[s].data = JsonDumps(Matching(s, WhereOf(s)))
                 /\ Len(Matching(s, WhereOf(s))) =
                       IF s = GROUP_A THEN n ELSE (n + 1) \div 2

C3_Witness ==
    /\ Saved(GROUP_A) /\ Saved(GROUP_B)
    /\ Len(reqs[GROUP_A]) = 3 /\ reqs[GROUP_A][3].got = 0
    /\ Len(reqs[GROUP_B]) = 2 /\ reqs[GROUP_B][2].got = 0
    /\ Len(fs[GROUP_A].data) = 6

\* C4: a transport failure while a prior (complete) cached copy exists is
\* not fatal: the fetch does not raise and the prior copy is still there,
\* unchanged.
C4_FailureNotFatalWithCache ==
    \A s \in SourceIds :
        (resp[s] = 0 /\ fsAtStart[s] = File(Payload(s))) =>
            /\ ~RaisedAt(s)
            /\ fs[s] = fsAtStart[s]

\* C5: a streamed download answered 403 raises nothing, creates no file,
\* returns None and is left out of the list ingest returns; any other
\* failure raises and aborts ingest at that source.
C5_NotAvailableIsAbsence ==
    \A s \in SourceIds :
        Kind(s) = "csv" =>
            /\ resp[s] = 403 =>
                  /\ Finished(s)
                  /\ ~RaisedAt(s)
                  /\ fs[s] = fsAtStart[s]
                  /\ s \notin Range(paths)
            /\ resp[s] \in FailStatuses \ {403} =>
                  /\ RaisedAt(s)
                  /\ \A t \in SourceIds : t > s => resp[t] = NoResp

C5_Witness ==
    /\ pc = "done"
    /\ \E s \in CfsYearSources :
          /\ resp[s] = 403
          /\ ~fs[s].exists
          /\ s \notin Range(paths)
    /\ \E t \in SourceIds : Kind(t) = "csv" /\ t \in Range(paths)

----------------------------------------------------------------------------
(***************************************************************************)
(* transform.py                                                            *)
(***************************************************************************)
\* String literals of transform.py, as sequences of characters.
s_SAN_DIEGO == <<"S", "A", "N", " ", "D", "I", "E", "G", "O">>
s_SHERIFF == <<"S", "H", "E", "R", "I", "F", "F">>
s_SD_COUNTY == <<"S", "D", " ", "C", "O", "U", "N", "T", "Y">>
s_CHULA_VISTA == <<"C", "H", "U", "L", "A", " ", "V", "I", "S", "T", "A">>
s_OCEANSIDE == <<"O", "C", "E", "A", "N", "S", "I", "D", "E">>
s_ESCONDIDO == <<"E", "S", "C", "O", "N", "D", "I", "D", "O">>
s_CARLSBAD == <<"C", "A", "R", "L", "S", "B", "A", "D">>
s_EL_CAJON == <<"E", "L", " ", "C", "A", "J", "O", "N">>
s_NATIONAL_CITY == <<"N", "A", "T", "I", "O", "N", "A", "L", " ", "C", "I", "T", "Y">>
s_LA_MESA == <<"L", "A", " ", "M", "E", "S", "A">>
s_CORONADO == <<"C", "O", "R", "O", "N", "A", "D", "O">>
s_VISTA == <<"V", "I", "S", "T", "A">>
c_SDPD == <<"S", "D", "P", "D">>
c_SDSO == <<"S", "D", "S", "O">>
c_CVPD == <<"C", "V", "P", "D">>
c_OPD == <<"O", "P", "D">>
c_EPD == <<"E", "P", "D">>
c_CPD == <<"C", "P", "D">>
c_ECPD == <<"E", "C", "P", "D">>
c_NCPD == <<"N", "C", "P", "D">>
c_LMPD == <<"L", "M", "P", "D">>
c_CoronPD == <<"C", "o", "r", "o", "n", "P", "D">>
c_VPD == <<"V", "P", "D">>
\* Further raw agency values.
in_san_diego_lc == <<"s", "a", "n", " ", "d", "i", "e", "g", "o">>
in_SD_Sheriff == <<"S", "a", "n", " ", "D", "i", "e", "g", "o", " ", "S", "h", "e", "r", "i", "f", "f">>
in_sd_county_north == <<"S", "D", " ", "C", "o", "u", "n", "t", "y", " ", "N", "o", "r", "t", "h">>
in_Poway == <<"P", "o", "w", "a", "y">>
in_Del_Mar == <<"D", "e", "l", " ", "M", "a", "r">>
in_La_Mesa_mixed == <<"L", "a", " ", "M", "e", "s", "a">>
in_North_Vista == <<"N", "o", "r", "t", "h", " ", "V", "i", "s", "t", "a">>
LowerLetters == <<"a", "b", "c", "d", "e", "f", "g", "h", "i", "j", "k", "l", "m", "n", "o", "p", "q", "r", "s", "t", "u", "v", "w", "x", "y", "z">>
UpperLetters == <<"A", "B", "C", "D", "E", "F", "G", "H", "I", "J", "K", "L", "M", "N", "O", "P", "Q", "R", "S", "T", "U", "V", "W", "X", "Y", "Z">>

\* SQL NULL in a VARCHAR column (no string has an element of four characters)
NullStr == <<"NULL">>
\* SQL NULL in a VARCHAR column whose values the model keeps whole
NullText == "<NULL>"
\* SQL NULL in a DATE, TIMESTAMP or INT column
Null == -1

CharSeqs(alphabet, len) == UNION {[1..k -> alphabet] : k \in 0..len}

Letters(seq) == {seq[i] : i \in DOMAIN seq}
UpperOf == [c \in Letters(LowerLetters) |->
              UpperLetters[CHOOSE i \in DOMAIN LowerLetters : LowerLetters[i] = c]]
LowerOf == [c \in Letters(UpperLetters) |->
              LowerLetters[CHOOSE i \in DOMAIN UpperLetters : UpperLetters[i] = c]]
UpperChar(c) == IF c \in DOMAIN UpperOf THEN UpperOf[c] ELSE c
LowerChar(c) == IF c \in DOMAIN LowerOf THEN LowerOf[c] ELSE c
\* UPPER(s), and the case folding ILIKE applies to both sides
Upper(s) == [i \in 1..Len(s) |-> UpperChar(s[i])]
Lower(s) == [i \in 1..Len(s) |-> LowerChar(s[i])]

NotSpace(c) == c # " "
\* REPLACE(s, ' ', '')
ReplaceSpaces(s) == SelectSeq(s, NotSpace)

Contains(s, p) ==
    \E k \in 0..(Len(s) - Len(p)) : SubSeq(s, k + 1, k + Len(p)) = p

\* s ILIKE 'pat' (kind "eq": no wildcard) and s ILIKE '%pat%' (kind "in").
\* NULL ILIKE anything is NULL, which no WHEN accepts.
ILike(s, rule) ==
    /\ s # NullStr
    /\ IF rule.kind = "eq"
       THEN Len(s) = Len(rule.pat) /\ Lower(s) = Lower(rule.pat)
       ELSE Len(s) >= Len(rule.pat) /\ Contains(Lower(s), Lower(rule.pat))

\* _AGENCY_CASE, the WHEN branches in order
AGENCY_RULES == <<
    [kind |-> "eq", pat |-> s_SAN_DIEGO, code |-> c_SDPD],
    [kind |-> "in", pat |-> s_SHERIFF, code |-> c_SDSO],
    [kind |-> "in", pat |-> s_SD_COUNTY, code |-> c_SDSO],
    [kind |-> "eq", pat |-> s_CHULA_VISTA, code |-> c_CVPD],
    [kind |-> "eq", pat |-> s_OCEANSIDE, code |-> c_OPD],
    [kind |-> "eq", pat |-> s_ESCONDIDO, code |-> c_EPD],
    [kind |-> "eq", pat |-> s_CARLSBAD, code |-> c_CPD],
    [kind |-> "eq", pat |-> s_EL_CAJON, code |-> c_ECPD],
    [kind |-> "eq", pat |-> s_NATIONAL_CITY, code |-> c_NCPD],
    [kind |-> "eq", pat |-> s_LA_MESA, code |-> c_LMPD],
    [kind |-> "eq", pat |-> s_CORONADO, code |-> c_CoronPD],
    [kind |-> "eq", pat |-> s_VISTA, code |-> c_VPD] >>

\* the CASE of _transform_arrests over arrest_agency, the WHEN branches in order
ARREST_AGENCY_RULES == <<
    [kind |-> "eq", pat |-> s_SAN_DIEGO, code |-> c_SDPD],
    [kind |-> "in", pat |-> s_SHERIFF, code |-> c_SDSO],
    [kind |-> "in", pat |-> s_SD_COUNTY, code |-> c_SDSO],
    [kind |-> "eq", pat |-> s_CHULA_VISTA, code |-> c_CVPD],
    [kind |-> "eq", pat |-> s_OCEANSIDE, code |-> c_OPD],
    [kind |-> "eq", pat |-> s_ESCONDIDO, code |-> c_EPD],
    [kind |-> "eq", pat |-> s_CARLSBAD, code |-> c_CPD],
    [kind |-> "eq", pat |-> s_EL_CAJON, code |-> c_ECPD],
    [kind |-> "eq", pat |-> s_NATIONAL_CITY, code |-> c_NCPD],
    [kind |-> "eq", pat |-> s_LA_MESA, code |-> c_LMPD],
    [kind |-> "eq", pat |-> s_CORONADO, code |-> c_CoronPD],
    [kind |-> "eq", pat |-> s_VISTA, code |-> c_VPD] >>

\* ELSE UPPER(REPLACE(agency, ' ', ''))
AgencyElse(s) == IF s = NullStr THEN NullStr ELSE Upper(ReplaceSpaces(s))

\* CASE WHEN ... THEN ... ELSE ... END: the first branch that accepts s
CaseWhen(rules, s) ==
    LET hits == {i \in DOMAIN rules : ILike(s, rules[i])}
    IN IF hits = {}
       THEN AgencyElse(s)
       ELSE rules[CHOOSE i \in hits : \A j \in hits : i <= j].code

\* TRY_CAST(x AS TIMESTAMP), as yyyymmddhh; an unparseable value gives NULL
TryCastTimestamp(x) ==
    CASE x = "2024-01-01" -> 2024010100
      [] x = "2024-03-01" -> 2024030100
      [] x = "2024-01-01 10:00:00" -> 2024010110
      [] x = "2024-03-01 10:00:00" -> 2024030110
      [] OTHER -> Null

\* TRY_CAST(x AS DATE), as yyyymmdd
TryCastDate(x) ==
    IF TryCastTimestamp(x) = Null THEN Null ELSE TryCastTimestamp(x) \div 100

\* TRY_CAST(x AS INT)
TryCastInt(x) ==
    CASE x = "25" -> 25
      [] x = "61" -> 61
      [] OTHER -> Null

\* YEAR(d), MONTH(d)
Year(d) == IF d = Null THEN Null ELSE d \div 10000
Month(d) == IF d = Null THEN Null ELSE (d \div 100) % 100

Table(rows) == [exists |-> TRUE, rows |-> rows]

\* The rows row[i], i \in I, as a table: row -> number of occurrences.
BagOf(I, row) ==
    [r \in {row[i] : i \in I} |-> Cardinality({i \in I : row[i] = r})]

RECURSIVE BagSize(_)
\* COUNT(*) of a table
BagSize(T) ==
    IF DOMAIN T = {} THEN 0
    ELSE LET r == CHOOSE x \in DOMAIN T : TRUE
         IN T[r] + BagSize([x \in DOMAIN T \ {r} |-> T[x]])

\* a faulty variant of Before: ORDER BY ... ASC
Before_Ascending(a, b) == a # Null /\ (b = Null \/ a < b)

\* ORDER BY ts DESC NULLS LAST: a row with a sorts strictly before one with b
Before(a, b) == a # Null /\ (b = Null \/ a > b)

\* a faulty variant of Survivors: the filter WHERE _rn = 1 is dropped
Survivors_NoFilter(I, key, ord) == {I}

\* ROW_NUMBER() OVER (PARTITION BY key ORDER BY ord DESC NULLS LAST) ... WHERE
\* _rn = 1: the sets of rows that can be numbered 1.  Row i can get number 1
\* when no row of its partition sorts strictly before it; among rows that
\* compare equal ROW_NUMBER follows no stated order.
Survivors(I, key, ord) ==
    LET Ks == {key[i] : i \in I}
        First(i) == \A j \in I : key[j] = key[i] => ~Before(ord[j], ord[i])
        Picks == {f \in [Ks -> I] : \A k \in Ks : key[f[k]] = k /\ First(f[k])}
    IN {{f[k] : k \in Ks} : f \in Picks}

\* PARTITION BY incidentuid, cibrs_offense_description
CrimeKey(r) == <<r.incidentuid, r.cibrs_offense_description>>

\* the select list of _transform_crime (the columns the model carries)
CrimeSelect(r) ==
    [incidentuid |-> r.incidentuid,
     incident_date |-> TryCastDate(r.incident_date),
     year |-> Year(TryCastDate(r.incident_date)),
     month |-> Month(TryCastDate(r.incident_date)),
     agency |-> r.agency,
     agency_short |-> CaseWhen(AGENCY_RULES, r.agency),
     offense_description |-> r.cibrs_offense_description,
     victim_age |-> TryCastInt(r.victim_age)]

\* the select list of _transform_arrests
ArrestSelect(r) ==
    [incidentuid |-> r.incident_uid,
     incident_date |-> TryCastDate(r.arrest_date),
     year |-> Year(TryCastDate(r.arrest_date)),
     month |-> Month(TryCastDate(r.arrest_date)),
     agency |-> r.arrest_agency,
     agency_short |-> CaseWhen(ARREST_AGENCY_RULES, r.arrest_agency),
     offense_code |-> r.offense_code,
     offense_description |-> r.offense_description]

\* _load_cfs_reference_tables: has_call_type, has_dispo
HasCallType == refCallType.exists
HasDispo == refDispo.exists

\* LEFT JOIN ref ON code = ref.code: the ref rows joined to a raw row with this
\* code; 0 stands for the NULL row of an unmatched left row (and for no join).
JoinMatches(has, ref, col, code) ==
    IF ~has THEN {0}
    ELSE LET M == {j \in DOMAIN ref : ref[j][col] = code}
         IN IF M = {} THEN {0} ELSE M

\* FROM raw_cfs cfs_raw {call_type_join} {dispo_join}: the joined rows, each
\* <<raw row, ref_call_type row, ref_dispo row>>
CfsJoined ==
    {j \in (DOMAIN rawCfs) \X (DOMAIN refCallType.rows \cup {0})
                            \X (DOMAIN refDispo.rows \cup {0}) :
        /\ j[2] \in JoinMatches(HasCallType, refCallType.rows, "CALL_TYPE",
                                rawCfs[j[1]].CALL_TYPE)
        /\ j[3] \in JoinMatches(HasDispo, refDispo.rows, "DISPO_CODE",
                                rawCfs[j[1]].DISPOSITION)}

\* a faulty variant of DescExpr: ref.DESCRIPTION without the COALESCE
DescExpr_NoCoalesce(has, ref, j, code) ==
    IF ~has THEN code
    ELSE IF j # 0 THEN ref[j].DESCRIPTION ELSE NullText

\* COALESCE(ref.DESCRIPTION, code), or the bare code without the lookup
DescExpr(has, ref, j, code) ==
    IF has /\ j # 0 /\ ref[j].DESCRIPTION # NullText
    THEN ref[j].DESCRIPTION
    ELSE code

\* PARTITION BY cfs_raw.INCIDENT_NUM
CfsKey(r) == r.INCIDENT_NUM

\* the select list of _transform_cfs (the columns the model carries)
CfsSelect(j) ==
    LET r == rawCfs[j[1]]
    IN [incident_num |-> r.INCIDENT_NUM,
        call_timestamp |-> TryCastTimestamp(r.DATE_TIME),
        call_date |-> TryCastDate(r.DATE_TIME),
        year |-> Year(TryCastDate(r.DATE_TIME)),
        call_type |-> r.CALL_TYPE,
        call_type_desc |-> DescExpr(HasCallType, refCallType.rows, j[2], r.CALL_TYPE),
        disposition |-> r.DISPOSITION,
        dispo_desc |-> DescExpr(HasDispo, refDispo.rows, j[3], r.DISPOSITION)]

(***************************************************************************)
(* Inputs of the canonicalizer.                                            *)
(***************************************************************************)
\* rows of raw_crime / raw_arrests / raw_cfs in one behaviour
MaxCrimeRows == 2
MaxArrestRows == 1
MaxCfsRows == 2
\* length of the raw agency strings drawn from AgencyAlphabet
MaxAgencyLen == 2
\* runs of transform() over the same raw artifacts
MaxPasses == 2

AgencyAlphabet == {"a", " ", "\t"}

AgencyInputs ==
    {NullStr, s_SAN_DIEGO, s_SHERIFF, s_SD_COUNTY, s_CHULA_VISTA, s_OCEANSIDE,
     s_ESCONDIDO, s_CARLSBAD, s_EL_CAJON, s_NATIONAL_CITY, s_LA_MESA,
     s_CORONADO, s_VISTA, in_san_diego_lc, in_SD_Sheriff, in_sd_county_north,
     in_Poway, in_Del_Mar, in_La_Mesa_mixed, in_North_Vista}
        \cup CharSeqs(AgencyAlphabet, MaxAgencyLen)

CrimeRow(uid, desc, date, agency, age) ==
    [incidentuid |-> uid, cibrs_offense_description |-> desc,
     incident_date |-> date, agency |-> agency, victim_age |-> age]

CrimeInputRows ==
    {CrimeRow("X1", desc, date, s_SAN_DIEGO, age) :
        desc \in {"Theft", "Fraud"},
        date \in {"2024-01-01", "2024-03-01", "n/a"},
        age \in {"25", "n/a"}}
      \cup {CrimeRow("X2", "Theft", "2024-01-01", a, "61") :
              a \in {s_SAN_DIEGO, in_Poway, <<>>}}

\* two revisions of incident ("X1", "Theft"), dated 2024-01-01 and 2024-03-01
ExampleCrime ==
    <<CrimeRow("X1", "Theft", "2024-01-01", s_SAN_DIEGO, "25"),
      CrimeRow("X1", "Theft", "2024-03-01", s_SAN_DIEGO, "25")>>

ArrestRow(agency) ==
    [incident_uid |-> "X1", arrest_date |-> "2024-01-01",
     arrest_agency |-> agency, offense_code |-> "90D",
     offense_description |-> "DUI"]

ExampleArrests == <<ArrestRow(s_SAN_DIEGO)>>

CfsRow(num, dt, ct) ==
    [INCIDENT_NUM |-> num, DATE_TIME |-> dt, CALL_TYPE |-> ct,
     DISPOSITION |-> "K"]

CfsInputRows ==
    {CfsRow("E1", dt, ct) :
        dt \in {"2024-01-01 10:00:00", "2024-03-01 10:00:00", "n/a"},
        ct \in {"459", "1151"}}
      \cup {CfsRow("E2", "2024-01-01 10:00:00", "459")}

ExampleCfs == <<CfsRow("E1", "2024-01-01 10:00:00", "459")>>

CallTypeRef(desc) == [CALL_TYPE |-> "459", DESCRIPTION |-> desc]
DispoRef(desc) == [DISPO_CODE |-> "K", DESCRIPTION |-> desc]

\* call_type_desc.csv: absent, one entry for 459, or two entries for 459
CallTypeRefInputs ==
    {NoTable,
     Table(<<CallTypeRef("BURGLARY")>>),
     Table(<<CallTypeRef("BURGLARY"), CallTypeRef("BURGLARY ALARM")>>)}

\* dispo_code_desc.csv: absent, or one entry for K
DispoRefInputs ==
    {NoTable,
     Table(<<DispoRef("NO REPORT")>>)}

SeqsUpTo(S, len) == UNION {[1..k -> S] : k \in 1..len}

\* a csv row whose DATE_TIME converts to the TIMESTAMP type of the column
ConvertsDateTime(r) == TryCastTimestamp(r.DATE_TIME) # Null

\* read_csv([...], header = true, ignore_errors = true, union_by_name = true):
\* the tables it can return for the rows csv.  The type of a column is
\* detected from the data; where DATE_TIME is detected as text every row is
\* returned, where it is detected as TIMESTAMP a row whose value does not
\* convert is an error row, which ignore_errors skips.
ReadCsv(csv) == {csv, SelectSeq(csv, ConvertsDateTime)}

Domains == {"crime", "arrests", "cfs"}

\* The raw artifacts of one behaviour: one domain's table is drawn from its
\* input set, the other domains hold a fixed example.  A cfs_*.csv file of the
\* model holds at least one row, so rawCfs = <<>> stands for "no cfs_*.csv".
InitTransform ==
    /\ \/ /\ rawCrime \in SeqsUpTo(CrimeInputRows, MaxCrimeRows)
          /\ rawArrests = ExampleArrests
          /\ csvCfs = ExampleCfs
          /\ rawCfs = ExampleCfs
          /\ refCallType = NoTable
          /\ refDispo = NoTable
       \/ /\ rawCrime = ExampleCrime
          /\ rawArrests \in SeqsUpTo({ArrestRow(a) : a \in AgencyInputs}, MaxArrestRows)
          /\ csvCfs = ExampleCfs
          /\ rawCfs = ExampleCfs
          /\ refCallType = NoTable
          /\ refDispo = NoTable
       \/ /\ rawCrime = ExampleCrime
          /\ rawArrests = ExampleArrests
          /\ csvCfs = <<>>
          /\ rawCfs = <<>>
          /\ refCallType \in CallTypeRefInputs
          /\ refDispo \in DispoRefInputs
       \/ /\ rawCrime = ExampleCrime
          /\ rawArrests = ExampleArrests
          /\ csvCfs \in SeqsUpTo(CfsInputRows, MaxCfsRows)
          /\ rawCfs \in ReadCsv(csvCfs) \ {<<>>}
          /\ refCallType \in CallTypeRefInputs
          /\ refDispo \in DispoRefInputs
    /\ canon = [d \in Domains |-> NoTable]
    /\ prev = [d \in Domains |-> NoTable]
    /\ aggs = {}
    /\ tpc = "idle"
    /\ passes = 0
    \* the fetch stage is not part of these behaviours
    /\ n = 0
    /\ fs = [s \in SourceIds |-> Absent]
    /\ fsAtStart = [s \in SourceIds |-> Absent]
    /\ runs = 0
    /\ force = FALSE
    /\ pc = "idle"
    /\ idx = 1
    /\ fpc = "start"
    /\ offset = 0
    /\ all_rows = <<>>
    /\ reqs = [s \in SourceIds |-> <<>>]
    /\ resp = [s \in SourceIds |-> NoResp]
    /\ paths = <<>>
    /\ BuildUnused
    /\ ViewsUnused
    /\ CheckUnused
    /\ QueryUnused

rawVars == <<rawCrime, rawArrests, csvCfs, rawCfs, refCallType, refDispo>>

\* transform() is called.
StartTransform ==
    /\ tpc \in {"idle", "done"}
    /\ passes < MaxPasses
    /\ passes' = passes + 1
    /\ prev' = canon
    /\ tpc' = "crime"
    /\ UNCHANGED <<rawVars, canon, aggs>>
    /\ UNCHANGED <<ingestVars, buildVars, viewVars, checkVars, queryVars>>

\* _transform_crime: CREATE TABLE crime ...; _export(crime.parquet)
TransformCrime ==
    /\ tpc = "crime"
    /\ LET I == DOMAIN rawCrime
           key == [i \in I |-> CrimeKey(rawCrime[i])]
           ord == [i \in I |-> TryCastTimestamp(rawCrime[i].incident_date)]
           row == [i \in I |-> CrimeSelect(rawCrime[i])]
       IN \E S \in Survivors(I, key, ord) :
             canon' = [canon EXCEPT !["crime"] = Table(BagOf(S, row))]
    /\ tpc' = "arrests"
    /\ UNCHANGED <<rawVars, aggs, passes, prev>>
    /\ UNCHANGED <<ingestVars, buildVars, viewVars, checkVars, queryVars>>

\* _transform_arrests: CREATE TABLE arrests ...; _export(arrests.parquet)
TransformArrests ==
    /\ tpc = "arrests"
    /\ LET I == DOMAIN rawArrests
           row == [i \in I |-> ArrestSelect(rawArrests[i])]
       IN canon' = [canon EXCEPT !["arrests"] = Table(BagOf(I, row))]
    /\ tpc' = "cfs"
    /\ UNCHANGED <<rawVars, aggs, passes, prev>>
    /\ UNCHANGED <<ingestVars, buildVars, viewVars, checkVars, queryVars>>

\* _transform_cfs with no cfs_*.csv in RAW_DIR: warn and return.
TransformCfsSkip ==
    /\ tpc = "cfs"
    /\ rawCfs = <<>>
    /\ tpc' = "agg"
    /\ UNCHANGED <<rawVars, canon, aggs, passes, prev>>
    /\ UNCHANGED <<ingestVars, buildVars, viewVars, checkVars, queryVars>>

\* _transform_cfs: CREATE TABLE cfs_dedup ...; _export(cfs.parquet)
TransformCfs ==
    /\ tpc = "cfs"
    /\ rawCfs # <<>>
    /\ LET J == CfsJoined
           key == [j \in J |-> CfsKey(rawCfs[j[1]])]
           ord == [j \in J |-> TryCastTimestamp(rawCfs[j[1]].DATE_TIME)]
           row == [j \in J |-> CfsSelect(j)]
       IN \E S \in Survivors(J, key, ord) :
             canon' = [canon EXCEPT !["cfs"] = Table(BagOf(S, row))]
    /\ tpc' = "agg"
    /\ UNCHANGED <<rawVars, aggs, passes, prev>>
    /\ UNCHANGED <<ingestVars, buildVars, viewVars, checkVars, queryVars>>

\* _build_aggregations: the views of every canonical file that exists.
BuildAggregations ==
    /\ tpc = "agg"
    /\ aggs' = aggs \cup (IF canon["crime"].exists THEN CrimeViews ELSE {})
                    \cup (IF canon["arrests"].exists THEN ArrestViews ELSE {})
                    \cup (IF canon["cfs"].exists THEN CfsViews ELSE {})
    /\ tpc' = "done"
    /\ UNCHANGED <<rawVars, canon, passes, prev>>
    /\ UNCHANGED <<ingestVars, buildVars, viewVars, checkVars, queryVars>>

NextTransform ==
    \/ StartTransform
    \/ TransformCrime
    \/ TransformArrests
    \/ TransformCfsSkip
    \/ TransformCfs
    \/ BuildAggregations

SpecTransform == InitTransform /\ [][NextTransform]_vars

----------------------------------------------------------------------------
(***************************************************************************)
(* Properties of the Canonicalizer.                                        *)
(***************************************************************************)
\* the natural key of a canonical crime row and of a canonical calls row
CanonCrimeKey(r) == <<r.incidentuid, r.offense_description>>
CanonCfsKey(r) == r.incident_num
\* the natural key of a raw crime row, as the spec defines it
RawCrimeKey(r) == <<r.incidentuid, r.cibrs_offense_description>>
RawCfsKey(r) == r.INCIDENT_NUM

RawCrimeKeys == {RawCrimeKey(rawCrime[i]) : i \in DOMAIN rawCrime}
RawCfsKeys == {RawCfsKey(rawCfs[i]) : i \in DOMAIN rawCfs}

C7_MaxTimestampSurvives ==
    /\ canon["crime"].exists =>
          /\ \A r \in DOMAIN canon["crime"].rows : \A i \in DOMAIN rawCrime :
                (/\ RawCrimeKey(rawCrime[i]) = CanonCrimeKey(r)
                 /\ TryCastDate(rawCrime[i].incident_date) # Null) =>
                    /\ r.incident_date # Null
                    /\ r.incident_date >= TryCastDate(rawCrime[i].incident_date)
          /\ rawCrime = ExampleCrime =>
                DOMAIN canon["crime"].rows = {CrimeSelect(ExampleCrime[2])}
    /\ canon["cfs"].exists =>
          \A r \in DOMAIN canon["cfs"].rows : \A i \in DOMAIN rawCfs :
             (/\ RawCfsKey(rawCfs[i]) = CanonCfsKey(r)
              /\ TryCastTimestamp(rawCfs[i].DATE_TIME) # Null) =>
                 /\ r.call_timestamp # Null
                 /\ r.call_timestamp >= TryCastTimestamp(rawCfs[i].DATE_TIME)

C7_Witness ==
    /\ tpc = "done"
    /\ rawCrime = ExampleCrime
    /\ DOMAIN canon["crime"].rows = {CrimeSelect(ExampleCrime[2])}
    /\ Len(rawCfs) = 2
    /\ RawCfsKey(rawCfs[1]) = RawCfsKey(rawCfs[2])
    /\ TryCastTimestamp(rawCfs[1].DATE_TIME) = Null
    /\ TryCastTimestamp(rawCfs[2].DATE_TIME) # Null
    /\ \A r \in DOMAIN canon["cfs"].rows : r.call_timestamp # Null

\* raw rows i and j of a table belong to one partition and share its maximum
\* timestamp
TiedCrime(k) ==
    \E i, j \in DOMAIN rawCrime :
        /\ i # j
        /\ RawCrimeKey(rawCrime[i]) = k /\ RawCrimeKey(rawCrime[j]) = k
        /\ TryCastTimestamp(rawCrime[i].incident_date)
              = TryCastTimestamp(rawCrime[j].incident_date)
        /\ \A m \in DOMAIN rawCrime :
              RawCrimeKey(rawCrime[m]) = k =>
                 ~Before(TryCastTimestamp(rawCrime[m].incident_date),
                         TryCastTimestamp(rawCrime[i].incident_date))
TiedCfs(k) ==
    \E i, j \in DOMAIN rawCfs :
        /\ i # j
        /\ RawCfsKey(rawCfs[i]) = k /\ RawCfsKey(rawCfs[j]) = k
        /\ TryCastTimestamp(rawCfs[i].DATE_TIME)
              = TryCastTimestamp(rawCfs[j].DATE_TIME)
        /\ \A m \in DOMAIN rawCfs :
              RawCfsKey(rawCfs[m]) = k =>
                 ~Before(TryCastTimestamp(rawCfs[m].DATE_TIME),
                         TryCastTimestamp(rawCfs[i].DATE_TIME))

\* transform() has run twice over the same raw artifacts
RanTwice == passes >= 2 /\ tpc = "done"

\* C8: when rows of one partition share the maximum timestamp, every run
\* keeps the same one of them for the same input.
C8_TieBreakDeterministic ==
    RanTwice =>
        /\ \A r \in DOMAIN canon["crime"].rows :
              TiedCrime(CanonCrimeKey(r)) => r \in DOMAIN prev["crime"].rows
        /\ \A r \in DOMAIN canon["cfs"].rows :
              TiedCfs(CanonCfsKey(r)) => r \in DOMAIN prev["cfs"].rows

\* C9: two runs of transform() over the same raw artifacts leave identical
\* canonical tables for crime, arrests and calls.
C9_Idempotent ==
    RanTwice => \A d \in Domains : canon[d] = prev[d]

\* C10: the agency short-code of every row of the crime and arrests tables
\* is a non-empty string.
C10_AgencyShortNonEmpty ==
    \A d \in {"crime", "arrests"} :
        \A r \in DOMAIN canon[d].rows :
            r.agency_short # NullStr /\ Len(r.agency_short) > 0

\* The classification the agency table is specified to compute: the code of
\* the first rule whose keyword occurs in s, case-insensitively, anywhere;
\* without such a rule, s uppercased with every whitespace character removed.
NotWhitespace(c) == c \notin {" ", "\t"}

KeywordOccurs(s, rule) ==
    Len(s) >= Len(rule.pat) /\ Contains(Lower(s), Lower(rule.pat))

FirstSubstringRule(rules, s) ==
    LET hits == {i \in DOMAIN rules : KeywordOccurs(s, rules[i])}
    IN IF hits = {}
       THEN Upper(SelectSeq(s, NotWhitespace))
       ELSE rules[CHOOSE i \in hits : \A j \in hits : i <= j].code

\* C11: the crime and arrests tracks use one rule table, and the short-code
\* of every row with an agency is that of the first rule whose keyword
\* occurs in the agency as a case-insensitive substring, else the agency
\* uppercased with all whitespace removed.
C11_FirstSubstringRuleWins ==
    /\ ARREST_AGENCY_RULES = AGENCY_RULES
    /\ \A d \in {"crime", "arrests"} :
          \A r \in DOMAIN canon[d].rows :
              r.agency # NullStr =>
                  r.agency_short = FirstSubstringRule(AGENCY_RULES, r.agency)

----------------------------------------------------------------------------
(***************************************************************************)
(* build.py, transform(), validate(): the stages of a pipeline run and the *)
(* files each stage leaves.  A file is followed by its state and the run   *)
(* that wrote it; its rows are followed by SpecTransform and SpecViews.    *)
(***************************************************************************)
\* runs (of build.main or of transform() alone) in one behaviour
MaxBuilds == 2

\* The ingest stage is not followed step by step.
IngestUnused ==
    /\ n = 0
    /\ fs = [s \in SourceIds |-> Absent]
    /\ fsAtStart = [s \in SourceIds |-> Absent]
    /\ runs = 0
    /\ force = FALSE
    /\ pc = "idle"
    /\ idx = 1
    /\ fpc = "start"
    /\ offset = 0
    /\ all_rows = <<>>
    /\ reqs = [s \in SourceIds |-> <<>>]
    /\ resp = [s \in SourceIds |-> NoResp]
    /\ paths = <<>>

\* the _export calls of _build_aggregations, in the order of the code
AGG_ORDER ==
    <<"crime_overview_monthly", "crime_by_type", "crime_by_zip",
      "crime_by_agency", "victim_demographics", "domestic_violence",
      "temporal_patterns", "map_points", "yearly_summary", "crime_by_city",
      "arrests_by_type", "cfs_monthly", "cfs_by_beat", "cfs_temporal">>

\* the canonical file a view is read from
ViewDomain(v) ==
    IF v \in CrimeViews THEN "crime"
    ELSE IF v \in ArrestViews THEN "arrests" ELSE "cfs"

\* validate(): expected_aggs
expected_aggs ==
    <<"crime_overview_monthly", "crime_by_type", "crime_by_zip",
      "crime_by_agency", "victim_demographics", "domestic_violence",
      "temporal_patterns", "map_points", "yearly_summary", "crime_by_city",
      "arrests_by_type",
      "cfs_monthly", "cfs_by_beat", "cfs_temporal">>

\* queries.py: the aggregation files the query layer reads
QUERY_PATHS ==
    <<"yearly_summary", "crime_overview_monthly", "crime_by_type",
      "crime_by_zip", "crime_by_agency", "crime_by_city",
      "victim_demographics", "domestic_violence", "temporal_patterns",
      "map_points", "arrests_by_type", "cfs_monthly", "cfs_by_beat",
      "cfs_temporal">>

\* RAW_DIR, PROCESSED_DIR and AGGREGATED_DIR before the first run: the raw
\* cache holds any of the three domains' artifacts, nothing is built yet.
InitBuild ==
    /\ bpc = "idle"
    /\ entry = "build"
    /\ rawDisk \in SUBSET Domains
    /\ procFile = [d \in Domains |-> AbsentFile]
    /\ aggFile = [v \in AllViews |-> AbsentFile]
    /\ builds = 0
    /\ trace = <<>>
    /\ fileIssues = [check1 |-> 0, check15 |-> 0]
    /\ IngestUnused
    /\ TransformUnused
    /\ ViewsUnused
    /\ CheckUnused
    /\ QueryUnused

BetweenRuns == bpc \in {"idle", "done", "raised"}

\* the current stage raises: the exception leaves transform() and main()
StageRaises ==
    /\ bpc' = "raised"
    /\ trace' = Append(trace, "raise")

\* build.main is started: Step 1, ingest(force=force)
Main ==
    /\ BetweenRuns
    /\ builds < MaxBuilds
    /\ builds' = builds + 1
    /\ entry' = "build"
    /\ bpc' = "ingest"
    /\ trace' = <<>>
    /\ UNCHANGED <<rawDisk, procFile, aggFile, fileIssues>>
    /\ UNCHANGED <<ingestVars, transformVars, viewVars, checkVars, queryVars>>

\* transform.py run as a script: transform() without ingest and validate
TransformMain ==
    /\ BetweenRuns
    /\ builds < MaxBuilds
    /\ builds' = builds + 1
    /\ entry' = "transform"
    /\ bpc' = "crime"
    /\ trace' = <<>>
    /\ UNCHANGED <<rawDisk, procFile, aggFile, fileIssues>>
    /\ UNCHANGED <<ingestVars, transformVars, viewVars, checkVars, queryVars>>

\* ingest() returns: both JSON artifacts are in RAW_DIR (cached or fetched);
\* the per-year CSVs are there unless every year was answered 403 and none
\* was cached.
IngestReturns ==
    /\ bpc = "ingest"
    /\ \E got \in {{}, {"cfs"}} : rawDisk' = rawDisk \cup {"crime", "arrests"} \cup got
    /\ bpc' = "crime"
    /\ trace' = Append(trace, "fetch")
    /\ UNCHANGED <<entry, procFile, aggFile, builds, fileIssues>>
    /\ UNCHANGED <<ingestVars, transformVars, viewVars, checkVars, queryVars>>

\* a faulty variant of IngestRaises: the run goes on to transform()
IngestRaises_Continues ==
    /\ bpc = "ingest"
    /\ rawDisk' = rawDisk \cup {"crime", "arrests"}
    /\ bpc' = "crime"
    /\ trace' = Append(trace, "raise")
    /\ UNCHANGED <<entry, procFile, aggFile, builds, fileIssues>>
    /\ UNCHANGED <<ingestVars, transformVars, viewVars, checkVars, queryVars>>

\* ingest() raises, after the artifacts fetched before the failing one were
\* written.
IngestRaises ==
    /\ bpc = "ingest"
    /\ \E got \in {{}, {"crime"}, {"crime", "arrests"}, {"crime", "arrests", "cfs"}} :
          rawDisk' = rawDisk \cup got
    /\ StageRaises
    /\ UNCHANGED <<entry, procFile, aggFile, builds, fileIssues>>
    /\ UNCHANGED <<ingestVars, transformVars, viewVars, checkVars, queryVars>>

\* _transform_crime: read_json, CREATE TABLE, _export(crime.parquet)
TrackCrime ==
    /\ bpc = "crime"
    /\ "crime" \in rawDisk
    /\ procFile' = [procFile EXCEPT !["crime"] = CompleteFile(builds)]
    /\ bpc' = "arrests"
    /\ trace' = Append(trace, "crime")
    /\ UNCHANGED <<entry, rawDisk, aggFile, builds, fileIssues>>
    /\ UNCHANGED <<ingestVars, transformVars, viewVars, checkVars, queryVars>>

\* _transform_arrests: read_json, CREATE TABLE, _export(arrests.parquet)
TrackArrests ==
    /\ bpc = "arrests"
    /\ "arrests" \in rawDisk
    /\ procFile' = [procFile EXCEPT !["arrests"] = CompleteFile(builds)]
    /\ bpc' = "cfs"
    /\ trace' = Append(trace, "arrests")
    /\ UNCHANGED <<entry, rawDisk, aggFile, builds, fileIssues>>
    /\ UNCHANGED <<ingestVars, transformVars, viewVars, checkVars, queryVars>>

\* _transform_cfs with cfs_*.csv present
TrackCfs ==
    /\ bpc = "cfs"
    /\ "cfs" \in rawDisk
    /\ procFile' = [procFile EXCEPT !["cfs"] = CompleteFile(builds)]
    /\ bpc' = "agg"
    /\ trace' = Append(trace, "cfs")
    /\ UNCHANGED <<entry, rawDisk, aggFile, builds, fileIssues>>
    /\ UNCHANGED <<ingestVars, transformVars, viewVars, checkVars, queryVars>>

\* _transform_cfs without any cfs_*.csv: warning, return
TrackCfsSkip ==
    /\ bpc = "cfs"
    /\ "cfs" \notin rawDisk
    /\ bpc' = "agg"
    /\ trace' = Append(trace, "cfs")
    /\ UNCHANGED <<entry, rawDisk, procFile, aggFile, builds, fileIssues>>
    /\ UNCHANGED <<ingestVars, transformVars, viewVars, checkVars, queryVars>>

\* read_json of a file that is not there raises (crime and arrests tracks
\* have no existence test).
TrackRaisesMissing ==
    /\ bpc \in {"crime", "arrests"}
    /\ bpc \notin rawDisk
    /\ StageRaises
    /\ UNCHANGED <<entry, rawDisk, procFile, aggFile, builds, fileIssues>>
    /\ UNCHANGED <<ingestVars, transformVars, viewVars, checkVars, queryVars>>

\* The read or the CREATE TABLE statement of a track raises (an artifact
\* holding [] has no columns to select, a malformed file, no memory left).
TrackRaises ==
    /\ bpc \in Domains
    /\ bpc \in rawDisk
    /\ StageRaises
    /\ UNCHANGED <<entry, rawDisk, procFile, aggFile, builds, fileIssues>>
    /\ UNCHANGED <<ingestVars, transformVars, viewVars, checkVars, queryVars>>

\* What an interrupted COPY ... TO 'path' leaves under path.  _export hands
\* the final path to the engine; whether the engine writes in place or to a
\* temporary file it renames is the engine's choice.
InterruptedCopy(f, k) == {f, PartialFile(k)}

\* _export of a track is interrupted inside COPY (disk full, I/O error).
TrackExportInterrupted ==
    /\ bpc \in Domains
    /\ bpc \in rawDisk
    /\ \E f \in InterruptedCopy(procFile[bpc], builds) :
          procFile' = [procFile EXCEPT ![bpc] = f]
    /\ StageRaises
    /\ UNCHANGED <<entry, rawDisk, aggFile, builds, fileIssues>>
    /\ UNCHANGED <<ingestVars, transformVars, viewVars, checkVars, queryVars>>

\* if <domain>_path.exists()
CanonExists(d) == procFile[d].st # "absent"

\* _build_aggregations: every view of every canonical file that exists is
\* written.  A canonical file that is cut short cannot be read.
Aggregate ==
    /\ bpc = "agg"
    /\ \A d \in Domains : procFile[d].st # "partial"
    /\ aggFile' = [v \in AllViews |->
                      IF CanonExists(ViewDomain(v))
                      THEN CompleteFile(builds) ELSE aggFile[v]]
    /\ bpc' = IF entry = "build" THEN "validate" ELSE "done"
    /\ trace' = Append(trace, "aggregate")
    /\ UNCHANGED <<entry, rawDisk, procFile, builds, fileIssues>>
    /\ UNCHANGED <<ingestVars, transformVars, viewVars, checkVars, queryVars>>

\* _build_aggregations raises at its k-th _export: the views before it are
\* written, the k-th is as the interrupted COPY left it, the rest untouched.
AggregateInterrupted ==
    /\ bpc = "agg"
    /\ \E k \in DOMAIN AGG_ORDER :
          /\ CanonExists(ViewDomain(AGG_ORDER[k]))
          /\ \A i \in 1..(k - 1) : procFile[ViewDomain(AGG_ORDER[i])].st # "partial"
          /\ \E f \in InterruptedCopy(aggFile[AGG_ORDER[k]], builds) :
                aggFile' = [v \in AllViews |->
                    IF v = AGG_ORDER[k] THEN f
                    ELSE IF /\ \E i \in 1..(k - 1) : AGG_ORDER[i] = v
                            /\ CanonExists(ViewDomain(v))
                         THEN CompleteFile(builds)
                         ELSE aggFile[v]]
    /\ StageRaises
    /\ UNCHANGED <<entry, rawDisk, procFile, builds, fileIssues>>
    /\ UNCHANGED <<ingestVars, transformVars, viewVars, checkVars, queryVars>>

\* validate(), Check 1 (one issue per canonical file not found) and Check 15
\* (one issue per expected aggregation file not found).  Checks 2 to 14 read
\* the rows of the canonical files.
Validate ==
    /\ bpc = "validate"
    /\ fileIssues' =
          [check1 |-> Cardinality({d \in Domains : ~CanonExists(d)}),
           check15 |-> Cardinality({i \in DOMAIN expected_aggs :
                                       aggFile[expected_aggs[i]].st = "absent"})]
    /\ bpc' = "done"
    /\ trace' = Append(trace, "validate")
    /\ UNCHANGED <<entry, rawDisk, procFile, aggFile, builds>>
    /\ UNCHANGED <<ingestVars, transformVars, viewVars, checkVars, queryVars>>

\* Between two runs the operator removes a domain's artifacts from the raw
\* cache.
RawCleared ==
    /\ BetweenRuns
    /\ \E d \in rawDisk : rawDisk' = rawDisk \ {d}
    /\ UNCHANGED <<bpc, entry, procFile, aggFile, builds, trace, fileIssues>>
    /\ UNCHANGED <<ingestVars, transformVars, viewVars, checkVars, queryVars>>

NextBuild ==
    \/ Main
    \/ TransformMain
    \/ IngestReturns
    \/ IngestRaises
    \/ TrackCrime
    \/ TrackArrests
    \/ TrackCfs
    \/ TrackCfsSkip
    \/ TrackRaisesMissing
    \/ TrackRaises
    \/ TrackExportInterrupted
    \/ Aggregate
    \/ AggregateInterrupted
    \/ Validate
    \/ RawCleared

SpecBuild == InitBuild /\ [][NextBuild]_vars

----------------------------------------------------------------------------
(***************************************************************************)
(* Properties of the stages and their files.                               *)
(***************************************************************************)
Done(stage) == stage \in Range(trace)

\* transform() was entered in the current run and has returned or raised
TransformOver ==
    /\ builds >= 1
    /\ entry = "transform" \/ Done("fetch")
    /\ bpc \in {"validate", "done", "raised"}

\* the track whose failure ended the run ("none": no track failed)
FailedTrack ==
    IF bpc # "raised" THEN "none"
    ELSE IF ~Done("crime") THEN "crime"
    ELSE IF ~Done("arrests") THEN "arrests"
    ELSE IF ~Done("cfs") THEN "cfs"
    ELSE "none"

BuiltThisRun(d) == procFile[d] = CompleteFile(builds)

\* C12: when transform() is over, every domain whose raw artifact is there
\* and whose own track did not fail has its canonical table built by this
\* run, whatever happened to the other domains.
C12_SiblingTracksComplete ==
    TransformOver =>
        \A d \in Domains :
            (d \in rawDisk /\ d # FailedTrack) => BuiltThisRun(d)

NoFileCutShort ==
    /\ \A d \in Domains : procFile[d].st # "partial"
    /\ \A v \in AllViews : aggFile[v].st # "partial"

\* C13: every aggregation view written by the current run is read from a
\* canonical table built by the current run (in runs none of whose exports
\* was interrupted).
C13_ViewsFromThisRun ==
    NoFileCutShort =>
        \A v \in AllViews :
            (builds >= 1 /\ aggFile[v].run = builds) =>
                BuiltThisRun(ViewDomain(v))

STAGE_ORDER == <<"fetch", "crime", "arrests", "cfs", "aggregate", "validate">>

IsPrefix(s, q) == Len(s) <= Len(q) /\ SubSeq(q, 1, Len(s)) = s

\* the stages completed, without the closing "raise"
CompletedStages ==
    IF trace # <<>> /\ trace[Len(trace)] = "raise"
    THEN SubSeq(trace, 1, Len(trace) - 1)
    ELSE trace

\* C14: in a run of build.main the stages complete in the order Fetch,
\* the three tracks, Aggregate, Validate; a canonical file is written only
\* after ingest returned, a view only after the three tracks finished,
\* validation starts only after the aggregation, and after a raise of
\* ingest the run writes nothing.
C14_StagesInOrder ==
    (entry = "build" /\ builds >= 1) =>
        /\ IsPrefix(CompletedStages, STAGE_ORDER)
        /\ \A d \in Domains : procFile[d].run = builds => Done("fetch")
        /\ \A v \in AllViews :
              aggFile[v].run = builds =>
                  Done("crime") /\ Done("arrests") /\ Done("cfs")
        /\ (bpc = "validate" \/ Done("validate")) => Done("aggregate")
        /\ (trace # <<>> /\ trace[1] = "raise") =>
              /\ bpc = "raised"
              /\ \A d \in Domains : procFile[d].run # builds
              /\ \A v \in AllViews : aggFile[v].run # builds

\* a second run of build.main has gone through every stage and has
\* rewritten every file
C14_Witness ==
    /\ entry = "build"
    /\ builds = 2
    /\ trace = STAGE_ORDER
    /\ \A d \in Domains : procFile[d] = CompleteFile(2)
    /\ \A v \in AllViews : aggFile[v] = CompleteFile(2)

\* C15: no file of PROCESSED_DIR or AGGREGATED_DIR is ever cut short under
\* its expected name.
C15_NoPartialFile ==
    /\ \A d \in Domains : procFile[d].st # "partial"
    /\ \A v \in AllViews : aggFile[v].st # "partial"

\* C16: the aggregator, the validator's Check 15 and the query layer name
\* the same 14 views; when all three canonical files exist the aggregator
\* writes all 14, and Check 15 then adds no issue.
C16_FourteenViews ==
    /\ Cardinality(AllViews) = 14
    /\ Len(AGG_ORDER) = 14 /\ Range(AGG_ORDER) = AllViews
    /\ Len(expected_aggs) = 14 /\ Range(expected_aggs) = AllViews
    /\ Len(QUERY_PATHS) = 14 /\ Range(QUERY_PATHS) = AllViews
    /\ (Done("aggregate") /\ \A d \in Domains : CanonExists(d)) =>
          {v \in AllViews : aggFile[v] = CompleteFile(builds)} = AllViews
    /\ (Done("validate") /\ \A d \in Domains : CanonExists(d)) =>
          fileIssues.check15 = 0

C16_Witness ==
    /\ bpc = "done"
    /\ Done("validate")
    /\ \A d \in Domains : BuiltThisRun(d)
    /\ \A v \in AllViews : aggFile[v] = CompleteFile(builds)
    /\ fileIssues = [check1 |-> 0, check15 |-> 0]

----------------------------------------------------------------------------
(***************************************************************************)
(* _build_aggregations: the rows of the 14 views, computed from canonical  *)
(* tables drawn from bounded sets.  Coordinates are in tenths of a degree. *)
(***************************************************************************)
\* rows of the canonical table the views are computed from
MaxViewRows == 2

\* _SD_LAT_MIN, _SD_LAT_MAX = 32.5, 33.3; _SD_LNG_MIN, _SD_LNG_MAX = -117.7, -116.8
SD_LAT_MIN == 325
SD_LAT_MAX == 333
SD_LNG_MIN == -1177
SD_LNG_MAX == -1168
\* SQL NULL in a DOUBLE column (no coordinate has this value)
NullCoord == -99999

\* days since 1970-01-01 of the date y-m-d
DaysFromCivil(y, m, d) ==
    LET yy == IF m <= 2 THEN y - 1 ELSE y
        era == yy \div 400
        yoe == yy - era * 400
        mp == IF m > 2 THEN m - 3 ELSE m + 9
        doy == (153 * mp + 2) \div 5 + d - 1
        doe == yoe * 365 + yoe \div 4 - yoe \div 100 + doy
    IN era * 146097 + doe - 719468

\* DAYOFWEEK(d): Sunday = 0 ... Saturday = 6
DayOfWeek(d) ==
    IF d = Null THEN Null
    ELSE (DaysFromCivil(d \div 10000, (d \div 100) % 100, d % 100) + 4) % 7

\* DATE_TRUNC('month', d)
MonthStart(d) == IF d = Null THEN Null ELSE (d \div 100) * 100 + 1

\* HOUR(ts) of a timestamp yyyymmddhh
Hour(ts) == IF ts = Null THEN Null ELSE ts % 100

\* A row of crime.parquet with the columns the views read; the columns
\* derived from incident_date are derived here as _transform_crime does.
CanonCrime(date, cat, age, dv, sv, zip, city, lat, lng) ==
    [year |-> Year(date), month |-> Month(date), dow |-> DayOfWeek(date),
     month_start |-> MonthStart(date), agency_short |-> c_SDPD,
     crime_against |-> cat, offense_group |-> "Larceny",
     offense_description |-> "Theft", victim_age |-> age,
     victim_race |-> "W", victim_sex |-> "F", zip_code |-> zip, city |-> city,
     is_domestic_violence |-> dv, is_stolen_vehicle |-> sv,
     lat |-> lat, lng |-> lng]

\* A row of arrests.parquet
CanonArrest(date, desc) ==
    [year |-> Year(date), month_start |-> MonthStart(date),
     agency_short |-> c_SDPD, offense_description |-> desc]

\* A row of cfs.parquet
CanonCall(ts, beat, prio) ==
    [year |-> Year(IF ts = Null THEN Null ELSE ts \div 100),
     dow |-> DayOfWeek(IF ts = Null THEN Null ELSE ts \div 100),
     hour |-> Hour(ts),
     month_start |-> MonthStart(IF ts = Null THEN Null ELSE ts \div 100),
     call_type_desc |-> "BURGLARY", priority |-> prio, disposition |-> "K",
     beat |-> beat]

\* COUNT(*) of a group
CountStar_OnePerGroup(I) == IF I = {} THEN 0 ELSE 1

CountStar(I) == Cardinality(I)

\* SUM(CASE WHEN col = val THEN 1 ELSE 0 END) over the rows I of T
SumCase_ElseOne(T, I, col, val) == Cardinality(I)

SumCase(T, I, col, val) == Cardinality({i \in I : T[i][col] = val})

\* a < b, a BETWEEN lo AND hi, a >= b: not true when a is NULL
Lt(a, b) == a # Null /\ a < b
Between(a, lo, hi) == a # Null /\ lo <= a /\ a <= hi
Ge(a, b) == a # Null /\ a >= b

AgeBin_Shifted(a) ==
    IF Lt(a, 17) THEN "Under 18"
    ELSE IF Between(a, 17, 24) THEN "18-24"
    ELSE IF Between(a, 25, 34) THEN "25-34"
    ELSE IF Between(a, 35, 44) THEN "35-44"
    ELSE IF Between(a, 45, 54) THEN "45-54"
    ELSE IF Between(a, 55, 64) THEN "55-64"
    ELSE IF Ge(a, 65) THEN "65+"
    ELSE "Unknown"

\* CASE WHEN victim_age < 18 THEN 'Under 18' ... ELSE 'Unknown' END AS age_bin
AgeBin(a) ==
    IF Lt(a, 18) THEN "Under 18"
    ELSE IF Between(a, 18, 24) THEN "18-24"
    ELSE IF Between(a, 25, 34) THEN "25-34"
    ELSE IF Between(a, 35, 44) THEN "35-44"
    ELSE IF Between(a, 45, 54) THEN "45-54"
    ELSE IF Between(a, 55, 64) THEN "55-64"
    ELSE IF Ge(a, 65) THEN "65+"
    ELSE "Unknown"

InBox_LatOnly(lat, lng) ==
    /\ lat # NullCoord /\ lng # NullCoord
    /\ SD_LAT_MIN <= lat /\ lat <= SD_LAT_MAX

\* lat IS NOT NULL AND lng IS NOT NULL AND lat BETWEEN ... AND lng BETWEEN ...
InBox(lat, lng) ==
    /\ lat # NullCoord /\ lng # NullCoord
    /\ SD_LAT_MIN <= lat /\ lat <= SD_LAT_MAX
    /\ SD_LNG_MIN <= lng /\ lng <= SD_LNG_MAX

crime_overview_monthly ==
    LET T == tbl["crime"].rows
        I == {i \in DOMAIN T : T[i].month_start # Null}
        K(i) == <<T[i].month_start, T[i].agency_short, T[i].crime_against>>
    IN [k \in {K(i) : i \in I} |->
          [total_incidents |-> CountStar({i \in I : K(i) = k})]]

crime_by_type ==
    LET T == tbl["crime"].rows
        I == {i \in DOMAIN T : T[i].year # Null}
        K(i) == <<T[i].offense_group, T[i].offense_description,
                  T[i].crime_against, T[i].year>>
    IN [k \in {K(i) : i \in I} |-> [count |-> CountStar({i \in I : K(i) = k})]]

crime_by_zip ==
    LET T == tbl["crime"].rows
        I == {i \in DOMAIN T : T[i].zip_code # NullText /\ T[i].year # Null}
        K(i) == <<T[i].zip_code, T[i].city, T[i].year, T[i].crime_against>>
    IN [k \in {K(i) : i \in I} |-> [count |-> CountStar({i \in I : K(i) = k})]]

crime_by_agency ==
    LET T == tbl["crime"].rows
        I == {i \in DOMAIN T : T[i].year # Null}
        K(i) == <<T[i].agency_short, T[i].year, T[i].crime_against>>
        G(k) == {i \in I : K(i) = k}
    IN [k \in {K(i) : i \in I} |->
          [count |-> CountStar(G(k)),
           dv_count |-> SumCase(T, G(k), "is_domestic_violence", TRUE)]]

victim_demographics ==
    LET T == tbl["crime"].rows
        I == {i \in DOMAIN T : T[i].year # Null}
        K(i) == <<AgeBin(T[i].victim_age), T[i].victim_race, T[i].victim_sex,
                  T[i].crime_against, T[i].year>>
    IN [k \in {K(i) : i \in I} |-> [count |-> CountStar({i \in I : K(i) = k})]]

domestic_violence ==
    LET T == tbl["crime"].rows
        I == {i \in DOMAIN T : T[i].is_domestic_violence = TRUE /\ T[i].year # Null}
        K(i) == <<T[i].agency_short, T[i].offense_group, T[i].victim_sex,
                  T[i].year, T[i].month_start>>
    IN [k \in {K(i) : i \in I} |-> [count |-> CountStar({i \in I : K(i) = k})]]

temporal_patterns ==
    LET T == tbl["crime"].rows
        I == {i \in DOMAIN T : T[i].year # Null}
        K(i) == <<T[i].dow, T[i].month, T[i].year, T[i].crime_against>>
    IN [k \in {K(i) : i \in I} |-> [count |-> CountStar({i \in I : K(i) = k})]]

\* not grouped: view row -> number of canonical rows it comes from
map_points ==
    LET T == tbl["crime"].rows
        I == {i \in DOMAIN T : InBox(T[i].lat, T[i].lng)}
        P(i) == [lat |-> T[i].lat, lng |-> T[i].lng,
                 offense_group |-> T[i].offense_group,
                 crime_against |-> T[i].crime_against,
                 agency |-> T[i].agency_short, year |-> T[i].year,
                 city |-> T[i].city]
    IN [r \in {P(i) : i \in I} |-> Cardinality({i \in I : P(i) = r})]

yearly_summary ==
    LET T == tbl["crime"].rows
        I == {i \in DOMAIN T : T[i].year # Null}
        K(i) == <<T[i].year>>
        G(k) == {i \in I : K(i) = k}
    IN [k \in {K(i) : i \in I} |->
          [total |-> CountStar(G(k)),
           person_crimes |-> SumCase(T, G(k), "crime_against", "People"),
           property_crimes |-> SumCase(T, G(k), "crime_against", "Property"),
           society_crimes |-> SumCase(T, G(k), "crime_against", "Society"),
           dv_total |-> SumCase(T, G(k), "is_domestic_violence", TRUE),
           stolen_vehicle_total |-> SumCase(T, G(k), "is_stolen_vehicle", TRUE)]]

crime_by_city ==
    LET T == tbl["crime"].rows
        I == {i \in DOMAIN T : T[i].city # NullText /\ T[i].year # Null}
        K(i) == <<T[i].city, T[i].year, T[i].crime_against>>
    IN [k \in {K(i) : i \in I} |-> [count |-> CountStar({i \in I : K(i) = k})]]

arrests_by_type ==
    LET T == tbl["arrests"].rows
        I == {i \in DOMAIN T : T[i].year # Null}
        K(i) == <<T[i].offense_description, T[i].agency_short, T[i].year,
                  T[i].month_start>>
    IN [k \in {K(i) : i \in I} |-> [count |-> CountStar({i \in I : K(i) = k})]]

cfs_monthly ==
    LET T == tbl["cfs"].rows
        I == {i \in DOMAIN T : T[i].month_start # Null}
        K(i) == <<T[i].month_start, T[i].year, T[i].call_type_desc, T[i].priority>>
    IN [k \in {K(i) : i \in I} |->
          [total_calls |-> CountStar({i \in I : K(i) = k})]]

cfs_by_beat ==
    LET T == tbl["cfs"].rows
        I == {i \in DOMAIN T : T[i].beat # NullText /\ T[i].year # Null}
        K(i) == <<T[i].beat, T[i].year, T[i].call_type_desc, T[i].priority,
                  T[i].disposition>>
    IN [k \in {K(i) : i \in I} |->
          [total_calls |-> CountStar({i \in I : K(i) = k})]]

cfs_temporal ==
    LET T == tbl["cfs"].rows
        I == {i \in DOMAIN T : T[i].dow # Null /\ T[i].hour # Null}
        K(i) == <<T[i].dow, T[i].hour, T[i].priority>>
    IN [k \in {K(i) : i \in I} |->
          [total_calls |-> CountStar({i \in I : K(i) = k})]]

\* the query of each view
ViewQuery(v) ==
    CASE v = "crime_overview_monthly" -> crime_overview_monthly
      [] v = "crime_by_type" -> crime_by_type
      [] v = "crime_by_zip" -> crime_by_zip
      [] v = "crime_by_agency" -> crime_by_agency
      [] v = "victim_demographics" -> victim_demographics
      [] v = "domestic_violence" -> domestic_violence
      [] v = "temporal_patterns" -> temporal_patterns
      [] v = "map_points" -> map_points
      [] v = "yearly_summary" -> yearly_summary
      [] v = "crime_by_city" -> crime_by_city
      [] v = "arrests_by_type" -> arrests_by_type
      [] v = "cfs_monthly" -> cfs_monthly
      [] v = "cfs_by_beat" -> cfs_by_beat
      [] v = "cfs_temporal" -> cfs_temporal

(***************************************************************************)
(* Canonical tables the views are computed from.                           *)
(***************************************************************************)
\* dates as yyyymmdd and timestamps as yyyymmddhh
ViewDates == {Null, 20230115, 20240105}

\* rows that differ in date, category and the two flags
CategoryRows ==
    {CanonCrime(date, cat, 25, dv, sv, "92101", "SAN DIEGO", 327, -1171) :
        date \in {Null, 20230115},
        cat \in {"People", "Property", "Society", NullText},
        dv \in BOOLEAN, sv \in {FALSE}}
      \cup {CanonCrime(20230115, "Property", 25, FALSE, TRUE, "92101",
                       "SAN DIEGO", 327, -1171),
            CanonCrime(20240105, "People", 25, TRUE, FALSE, "92101",
                       "SAN DIEGO", 327, -1171)}

\* ages on both sides of every band boundary, and a missing age
AgeInputs == {Null, 17, 18, 24, 25, 34, 35, 44, 45, 54, 55, 64, 65}

AgeRows ==
    {CanonCrime(20230115, "People", age, FALSE, FALSE, "92101", "SAN DIEGO",
                327, -1171) : age \in AgeInputs}

\* coordinates on both sides of every edge of the box, and missing ones
GeoRows ==
    {CanonCrime(20230115, "People", 25, FALSE, FALSE, "92101", "SAN DIEGO",
                lat, -1171) :
        lat \in {NullCoord, SD_LAT_MIN - 1, SD_LAT_MIN, SD_LAT_MAX, SD_LAT_MAX + 1}}
      \cup
    {CanonCrime(20230115, "People", 25, FALSE, FALSE, "92101", "SAN DIEGO",
                327, lng) :
        lng \in {NullCoord, SD_LNG_MIN - 1, SD_LNG_MIN, SD_LNG_MAX, SD_LNG_MAX + 1}}

\* rows with and without zip code and city
PlaceRows ==
    {CanonCrime(date, "People", 25, FALSE, FALSE, zip, city, 327, -1171) :
        date \in {Null, 20230115},
        zip \in {NullText, "92101"}, city \in {NullText, "SAN DIEGO"}}

\* 100 People, 50 Property, 10 Society rows and 1 uncategorized row of 2023
YearlyExample ==
    [i \in 1..161 |->
        CanonCrime(20230115,
                   IF i <= 100 THEN "People"
                   ELSE IF i <= 150 THEN "Property"
                   ELSE IF i <= 160 THEN "Society" ELSE NullText,
                   25, FALSE, FALSE, "92101", "SAN DIEGO", 327, -1171)]

ArrestRows ==
    {CanonArrest(date, desc) : date \in ViewDates, desc \in {"DUI", "Trespass"}}


CallRows ==
    {CanonCall(ts, beat, prio) :
        ts \in {Null, 2023011510, 2024010523},
        beat \in {NullText, "521"}, prio \in {Null, 1}}

ExampleCanonCrime ==
    <<CanonCrime(20230115, "People", 25, FALSE, FALSE, "92101", "SAN DIEGO",
                 327, -1171)>>
ExampleCanonArrests == <<CanonArrest(20230115, "DUI")>>
ExampleCanonCfs == <<CanonCall(2023011510, "521", 1)>>

\* a canonical Parquet file and its rows, and a file that does not exist
CanonFile(rows) == [exists |-> TRUE, rows |-> rows]
NoCanonFile == [exists |-> FALSE, rows |-> <<>>]

ExampleCanon(d) ==
    CASE d = "crime" -> ExampleCanonCrime
      [] d = "arrests" -> ExampleCanonArrests
      [] d = "cfs" -> ExampleCanonCfs

\* The canonical tables one domain can hold.
CanonInputs(d) ==
    CASE d = "crime" -> SeqsUpTo(CategoryRows, MaxViewRows)
                          \cup SeqsUpTo(AgeRows, MaxViewRows)
                          \cup SeqsUpTo(GeoRows, MaxViewRows)
                          \cup SeqsUpTo(PlaceRows, MaxViewRows)
                          \cup {YearlyExample}
      [] d = "arrests" -> SeqsUpTo(ArrestRows, MaxViewRows)
      [] d = "cfs" -> SeqsUpTo(CallRows, MaxViewRows) \cup {<<>>}

\* The canonical files before _build_aggregations: one domain's table is
\* drawn from its input set while the others hold an example, or each domain
\* holds an example or no file.
InitViews ==
    /\ \/ \E d \in Domains : \E s \in CanonInputs(d) :
             tbl = [e \in Domains |->
                       IF e = d THEN CanonFile(s) ELSE CanonFile(ExampleCanon(e))]
       \/ \E D \in SUBSET Domains :
             tbl = [e \in Domains |->
                       IF e \in D THEN CanonFile(ExampleCanon(e)) ELSE NoCanonFile]
    /\ view = [v \in AllViews |-> <<>>]
    /\ vpc = "idle"
    /\ IngestUnused
    /\ TransformUnused
    /\ BuildUnused
    /\ CheckUnused
    /\ QueryUnused

\* _build_aggregations: the views of every canonical file that exists are
\* written; the views of a missing file are left as they were.
WriteViews ==
    /\ vpc = "idle"
    /\ view' = [v \in AllViews |->
                   IF tbl[ViewDomain(v)].exists THEN ViewQuery(v) ELSE view[v]]
    /\ vpc' = "done"
    /\ UNCHANGED tbl
    /\ UNCHANGED <<ingestVars, transformVars, buildVars, checkVars, queryVars>>

NextViews == WriteViews

SpecViews == InitViews /\ [][NextViews]_vars

----------------------------------------------------------------------------
(***************************************************************************)
(* Properties of the views.                                                *)
(***************************************************************************)
GroupedViews == AllViews \ {"map_points"}

\* the name of the count metric of a grouped view
CountMetric(v) ==
    CASE v = "crime_overview_monthly" -> "total_incidents"
      [] v = "yearly_summary" -> "total"
      [] v \in CfsViews -> "total_calls"
      [] OTHER -> "count"

\* the filter a grouped view states over its canonical table
ViewFilter(v, r) ==
    CASE v = "crime_overview_monthly" -> r.month_start # Null
      [] v = "crime_by_zip" -> r.zip_code # NullText /\ r.year # Null
      [] v = "domestic_violence" -> r.is_domestic_violence /\ r.year # Null
      [] v = "crime_by_city" -> r.city # NullText /\ r.year # Null
      [] v = "cfs_monthly" -> r.month_start # Null
      [] v = "cfs_by_beat" -> r.beat # NullText /\ r.year # Null
      [] v = "cfs_temporal" -> r.dow # Null /\ r.hour # Null
      [] OTHER -> r.year # Null

\* the sum of metric m over all rows of the grouped view V
SumMetric(V, m) == BagSize([k \in DOMAIN V |-> V[k][m]])

\* the rows of domain d's canonical table that satisfy view v's filter
Filtered(v) ==
    LET T == tbl[ViewDomain(v)].rows
    IN {i \in DOMAIN T : ViewFilter(v, T[i])}

\* the rows among I of the crime table whose flag column is true
Flagged(I, flag) == {i \in I : tbl["crime"].rows[i][flag]}

\* C17: for every grouped view, the count metric summed over the view's
\* rows equals the number of canonical rows satisfying the view's filter,
\* and each flag metric (dv_count, dv_total, stolen_vehicle_total) sums to
\* the number of those rows whose flag is true.
C17_CountsAddUp ==
    vpc = "done" =>
      /\ \A v \in GroupedViews : tbl[ViewDomain(v)].exists =>
            SumMetric(view[v], CountMetric(v)) = Cardinality(Filtered(v))
      /\ tbl["crime"].exists =>
            /\ SumMetric(view["crime_by_agency"], "dv_count")
                 = Cardinality(Flagged(Filtered("crime_by_agency"),
                                       "is_domestic_violence"))
            /\ SumMetric(view["yearly_summary"], "dv_total")
                 = Cardinality(Flagged(Filtered("yearly_summary"),
                                       "is_domestic_violence"))
            /\ SumMetric(view["yearly_summary"], "stolen_vehicle_total")
                 = Cardinality(Flagged(Filtered("yearly_summary"),
                                       "is_stolen_vehicle"))

\* Two rows fall into one group of crime_by_agency, one of them flagged as
\* domestic violence, while a filter has dropped a row of another view.
C17_Witness ==
    /\ vpc = "done"
    /\ tbl["crime"].exists
    /\ \E k \in DOMAIN view["crime_by_agency"] :
          /\ view["crime_by_agency"][k].count = 2
          /\ view["crime_by_agency"][k].dv_count = 1
    /\ \E k \in DOMAIN view["yearly_summary"] :
          view["yearly_summary"][k].stolen_vehicle_total = 1
    /\ Cardinality(Filtered("domestic_violence")) < Len(tbl["crime"].rows)

\* the canonical crime rows with both coordinates present and inside the box
InsideBox ==
    LET T == tbl["crime"].rows
    IN {i \in DOMAIN T :
          /\ T[i].lat # NullCoord /\ T[i].lng # NullCoord
          /\ T[i].lat >= SD_LAT_MIN /\ T[i].lat <= SD_LAT_MAX
          /\ T[i].lng >= SD_LNG_MIN /\ T[i].lng <= SD_LNG_MAX}

\* the view row r shows the canonical crime row c
ShownAs(c, r) ==
    /\ r.lat = c.lat /\ r.lng = c.lng
    /\ r.offense_group = c.offense_group /\ r.crime_against = c.crime_against
    /\ r.agency = c.agency_short /\ r.year = c.year /\ r.city = c.city

\* C18: every row of map_points has a latitude in [32.5, 33.3] and a
\* longitude in [-117.7, -116.8], neither missing; and every canonical crime
\* row inside these bounds appears in the view, one view row per canonical row.
C18_MapPointsInBox ==
    (vpc = "done" /\ tbl["crime"].exists) =>
      LET T == tbl["crime"].rows
          V == view["map_points"]
      IN /\ \A r \in DOMAIN V :
               /\ r.lat # NullCoord /\ r.lng # NullCoord
               /\ r.lat >= SD_LAT_MIN /\ r.lat <= SD_LAT_MAX
               /\ r.lng >= SD_LNG_MIN /\ r.lng <= SD_LNG_MAX
         /\ \A i \in InsideBox : \E r \in DOMAIN V :
               /\ ShownAs(T[i], r)
               /\ V[r] = Cardinality({j \in InsideBox : ShownAs(T[j], r)})
         /\ BagSize(V) = Cardinality(InsideBox)

\* A row on the northern edge of the box is in the view and a row just west
\* of the box is not.
C18_Witness ==
    /\ vpc = "done"
    /\ tbl["crime"].exists
    /\ Len(tbl["crime"].rows) = 2
    /\ \E i \in DOMAIN tbl["crime"].rows :
          /\ tbl["crime"].rows[i].lat = SD_LAT_MAX
          /\ i \in InsideBox
    /\ \E i \in DOMAIN tbl["crime"].rows :
          /\ tbl["crime"].rows[i].lng = SD_LNG_MIN - 1
          /\ i \notin InsideBox
    /\ BagSize(view["map_points"]) = 1

\* the canonical crime rows of year y, and those among them of category c
RowsOfYear(y) == {i \in DOMAIN tbl["crime"].rows : tbl["crime"].rows[i].year = y}
RowsOfCategory(y, c) ==
    {i \in RowsOfYear(y) : tbl["crime"].rows[i].crime_against = c}

\* C19: in yearly_summary, total counts every row of the year whatever its
\* category, and person_crimes, property_crimes and society_crimes count
\* exactly the rows of category People, Property and Society; 100 People,
\* 50 Property, 10 Society and 1 uncategorized row of 2023 give total = 161
\* and 100, 50, 10.
C19_YearlySummary ==
    (vpc = "done" /\ tbl["crime"].exists) =>
      LET T == tbl["crime"].rows
          V == view["yearly_summary"]
      IN /\ DOMAIN V = {<<T[i].year>> : i \in {j \in DOMAIN T : T[j].year # Null}}
         /\ \A k \in DOMAIN V :
               /\ V[k].total = Cardinality(RowsOfYear(k[1]))
               /\ V[k].person_crimes = Cardinality(RowsOfCategory(k[1], "People"))
               /\ V[k].property_crimes = Cardinality(RowsOfCategory(k[1], "Property"))
               /\ V[k].society_crimes = Cardinality(RowsOfCategory(k[1], "Society"))
         /\ T = YearlyExample =>
               /\ DOMAIN V = {<<2023>>}
               /\ V[<<2023>>].total = 161
               /\ V[<<2023>>].person_crimes = 100
               /\ V[<<2023>>].property_crimes = 50
               /\ V[<<2023>>].society_crimes = 10

\* The views of the table of 100 People, 50 Property, 10 Society and 1
\* uncategorized row have been written.
C19_Witness ==
    /\ vpc = "done"
    /\ tbl["crime"] = CanonFile(YearlyExample)
    /\ Cardinality(RowsOfCategory(2023, NullText)) = 1
    /\ view["yearly_summary"][<<2023>>].total = 161

\* the largest age the totality of the bucketing is checked for
MaxAge == 70

\* the eight bands, and the ages each band's name stands for
AGE_BANDS == {"Under 18", "18-24", "25-34", "35-44", "45-54", "55-64", "65+",
              "Unknown"}

InBand(b, a) ==
    CASE b = "Under 18" -> a # Null /\ a <= 17
      [] b = "18-24" -> a # Null /\ 18 <= a /\ a <= 24
      [] b = "25-34" -> a # Null /\ 25 <= a /\ a <= 34
      [] b = "35-44" -> a # Null /\ 35 <= a /\ a <= 44
      [] b = "45-54" -> a # Null /\ 45 <= a /\ a <= 54
      [] b = "55-64" -> a # Null /\ 55 <= a /\ a <= 64
      [] b = "65+" -> a # Null /\ a >= 65
      [] b = "Unknown" -> a = Null

\* the number of rows victim_demographics counts in band b
CountedInBand(b) ==
    LET V == view["victim_demographics"]
    IN BagSize([k \in {j \in DOMAIN V : j[1] = b} |-> V[k].count])

\* C20: age bucketing is total onto the eight bands: every integer age is in
\* exactly one of Under 18, 18-24, 25-34, 35-44, 45-54, 55-64, 65+, with the
\* boundaries 17/18, 24/25, 34/35, 44/45, 54/55, 64/65 as the names say, and
\* a missing age is in Unknown and in no other band.
C20_AgeBands ==
    (vpc = "done" /\ tbl["crime"].exists) =>
          LET T == tbl["crime"].rows
          IN /\ \A a \in (0..MaxAge) \cup {Null} :
                   /\ InBand(AgeBin(a), a)
                   /\ \A b \in AGE_BANDS \ {AgeBin(a)} : ~InBand(b, a)
             /\ \A k \in DOMAIN view["victim_demographics"] : k[1] \in AGE_BANDS
             /\ \A b \in AGE_BANDS :
                   CountedInBand(b) =
                     Cardinality({i \in DOMAIN T :
                        T[i].year # Null /\ InBand(b, T[i].victim_age)})

\* A victim of 17 and a victim of 18 are counted in different bands.
C20_Witness ==
    /\ vpc = "done"
    /\ tbl["crime"].exists
    /\ \E i, j \in DOMAIN tbl["crime"].rows :
          /\ tbl["crime"].rows[i].victim_age = 17
          /\ tbl["crime"].rows[j].victim_age = 18
    /\ CountedInBand("Under 18") = 1
    /\ CountedInBand("18-24") = 1

----------------------------------------------------------------------------
(***************************************************************************)
(* validate(): the 15 checks over the canonical and aggregated files.      *)
(* A canonical file holds the rows listed in `rows` and `bulk` further     *)
(* rows, which have keys of their own and otherwise equal BulkRow.         *)
(***************************************************************************)
\* listed rows of a canonical file the validator reads
MaxCheckRows == 2

\* count > 500_000, count > 40_000, count > 3_000_000
CRIME_ROWS_FLOOR == 500000
ARRESTS_ROWS_FLOOR == 40000
CFS_ROWS_FLOOR == 3000000
\* min_yr <= 2021, min_yr <= 2015
CRIME_FIRST_YEAR == 2021
CFS_FIRST_YEAR == 2015

Processed(rows, bulk) == [exists |-> TRUE, rows |-> rows, bulk |-> bulk]
NoProcessed == [exists |-> FALSE, rows |-> <<>>, bulk |-> 0]

\* the columns of crime.parquet, arrests.parquet and cfs.parquet validate() reads
CheckedCrime(uid, desc, date, cat, lat) ==
    [incidentuid |-> uid, offense_description |-> desc, incident_date |-> date,
     year |-> Year(date), agency_short |-> c_SDPD, crime_against |-> cat,
     offense_group |-> "Larceny", lat |-> lat, lng |-> -1171]

CheckedArrest(date) == [year |-> Year(date), offense_description |-> "DUI"]

CheckedCall(num, date, beat) ==
    [incident_num |-> num, year |-> Year(date), beat |-> beat]

BulkRow(d) ==
    CASE d = "crime" -> CheckedCrime("B", "Theft", 20210115, "People", 327)
      [] d = "arrests" -> CheckedArrest(20210115)
      [] d = "cfs" -> CheckedCall("B", 20150115, "521")

\* SELECT COUNT(*) FROM file WHERE P
CountWhere(d, P(_)) ==
    LET T == tbl[d]
    IN Cardinality({i \in DOMAIN T.rows : P(T.rows[i])})
         + (IF P(BulkRow(d)) THEN T.bulk ELSE 0)

\* SELECT DISTINCT col FROM file (NULL included)
Distinct(d, col) ==
    {tbl[d].rows[i][col] : i \in DOMAIN tbl[d].rows}
       \cup (IF tbl[d].bulk > 0 THEN {BulkRow(d)[col]} ELSE {})

\* SELECT MIN(year), SELECT MAX(year): None (NULL) when no row has a year
MinYear(d) ==
    LET Y == Distinct(d, "year") \ {Null}
    IN IF Y = {} THEN Null ELSE CHOOSE y \in Y : \A z \in Y : y <= z

MaxYear(d) ==
    LET Y == Distinct(d, "year") \ {Null}
    IN IF Y = {} THEN Null ELSE CHOOSE y \in Y : \A z \in Y : y >= z

\* Python truth value of an int or None
Truthy(x) == x # Null /\ x # 0

\* one printed result
Line(k, status) == [check |-> k, status |-> status]

\* the outcome of one check: the results it prints and what it adds to issues
Outcome(lines, inc) == [lines |-> lines, inc |-> inc]
Skipped == Outcome(<<>>, 0)

\* Check 1: File existence
Check1 ==
    LET order == <<"crime", "arrests", "cfs">>
    IN Outcome([i \in 1..3 |-> Line(1, IF tbl[order[i]].exists THEN "PASS" ELSE "FAIL")],
               Cardinality({i \in 1..3 : ~tbl[order[i]].exists}))

\* Check 2: Crime row count
Check2 ==
    IF ~tbl["crime"].exists THEN Skipped
    ELSE LET count == CountWhere("crime", LAMBDA r : TRUE)
         IN IF Truthy(count) /\ count > CRIME_ROWS_FLOOR
            THEN Outcome(<<Line(2, "PASS")>>, 0)
            ELSE Outcome(<<Line(2, "WARN")>>, 1)

\* Check 3: Crime date range
Check3 ==
    IF ~tbl["crime"].exists THEN Skipped
    ELSE LET min_yr == MinYear("crime")
             max_yr == MaxYear("crime")
         IN IF /\ Truthy(min_yr) /\ min_yr <= CRIME_FIRST_YEAR
               /\ Truthy(max_yr) /\ max_yr >= CURRENT_YEAR - 1
            THEN Outcome(<<Line(3, "PASS")>>, 0)
            ELSE Outcome(<<Line(3, "WARN")>>, 1)

\* Check 4: Geographic bounds; pct < 1 with pct = outliers / total_geo * 100
Check4 ==
    IF ~tbl["crime"].exists THEN Skipped
    ELSE LET outliers == CountWhere("crime", LAMBDA r :
                            /\ r.lat # NullCoord
                            /\ \/ r.lat < SD_LAT_MIN \/ r.lat > SD_LAT_MAX
                               \/ (r.lng # NullCoord /\ r.lng < SD_LNG_MIN)
                               \/ (r.lng # NullCoord /\ r.lng > SD_LNG_MAX))
             total_geo == CountWhere("crime", LAMBDA r : r.lat # NullCoord)
         IN IF total_geo = 0 \/ outliers * 100 < total_geo
            THEN Outcome(<<Line(4, "PASS")>>, 0)
            ELSE Outcome(<<Line(4, "WARN")>>, 1)

\* the value that stands for NULL in a column of crime.parquet
NullOf(col) ==
    CASE col = "incident_date" -> Null
      [] col = "agency_short" -> NullStr
      [] OTHER -> NullText

\* Check 5: NULL rates on critical columns; pct < 5 with pct = nulls / total * 100
Check5 ==
    IF ~tbl["crime"].exists THEN Skipped
    ELSE LET cols == <<"incident_date", "agency_short", "crime_against", "offense_group">>
             total == CountWhere("crime", LAMBDA r : TRUE)
             nulls(col) == CountWhere("crime", LAMBDA r : r[col] = NullOf(col))
             high(col) == total # 0 /\ nulls(col) * 100 >= 5 * total
         IN Outcome([i \in 1..4 |-> Line(5, IF high(cols[i]) THEN "WARN" ELSE "PASS")],
                    Cardinality({i \in 1..4 : high(cols[i])}))

\* the elements of the set S of integers in ascending order
Sorted(S) ==
    CHOOSE s \in [1..Cardinality(S) -> S] :
        \A i, j \in 1..Cardinality(S) : i < j => s[i] < s[j]

\* Check 6: Agency distribution, at most 5 INFO results
Check6 ==
    IF ~tbl["crime"].exists THEN Skipped
    ELSE LET A == IF CountWhere("crime", LAMBDA r : TRUE) = 0 THEN {}
                  ELSE Distinct("crime", "agency_short")
             k == IF Cardinality(A) > 5 THEN 5 ELSE Cardinality(A)
         IN Outcome([i \in 1..k |-> Line(6, "INFO")], 0)

\* Check 7: Crime categories present
Check7 ==
    IF ~tbl["crime"].exists THEN Skipped
    ELSE LET cats_list == Distinct("crime", "crime_against") \ {NullText}
         IN IF {"People", "Property", "Society"} \subseteq cats_list
            THEN Outcome(<<Line(7, "PASS")>>, 0)
            ELSE Outcome(<<Line(7, "WARN")>>, 1)

\* Check 8: Year-over-year anomalies; abs(change) > 50 with
\* change = (curr_n - prev_n) / prev_n * 100
Check8 ==
    IF ~tbl["crime"].exists THEN Skipped
    ELSE LET years == Sorted(Distinct("crime", "year") \ {Null})
             cnt(y) == CountWhere("crime", LAMBDA r : r.year = y)
             diff(i) == cnt(years[i]) - cnt(years[i - 1])
             abs(x) == IF x < 0 THEN 0 - x ELSE x
             anomaly(i) == abs(diff(i)) * 100 > 50 * cnt(years[i - 1])
             I == 2..Len(years)
         IN IF Len(years) < 2 THEN Skipped
            ELSE Outcome([j \in 1..(Len(years) - 1) |->
                             Line(8, IF anomaly(j + 1) THEN "WARN" ELSE "PASS")],
                         Cardinality({i \in I : anomaly(i)}))

\* Check 9: Crime dedup check; dupes = groups of (incidentuid,
\* offense_description) with more than one row
Check9 ==
    IF ~tbl["crime"].exists THEN Skipped
    ELSE LET T == tbl["crime"].rows
             K(i) == <<T[i].incidentuid, T[i].offense_description>>
             dupes == Cardinality({k \in {K(i) : i \in DOMAIN T} :
                          Cardinality({i \in DOMAIN T : K(i) = k}) > 1})
         IN IF dupes = 0
            THEN Outcome(<<Line(9, "PASS")>>, 0)
            ELSE Outcome(<<Line(9, "FAIL")>>, 1)

\* Check 10: Arrests row count and offense types
Check10 ==
    IF ~tbl["arrests"].exists THEN Skipped
    ELSE LET count == CountWhere("arrests", LAMBDA r : TRUE)
             status == IF Truthy(count) /\ count > ARRESTS_ROWS_FLOOR
                       THEN "PASS" ELSE "WARN"
         IN Outcome(<<Line(10, status), Line(10, "INFO")>>,
                    IF Truthy(count) /\ count <= ARRESTS_ROWS_FLOOR THEN 1 ELSE 0)

\* Check 11: Arrests date range
Check11 ==
    IF ~tbl["arrests"].exists THEN Skipped
    ELSE Outcome(<<Line(11, "INFO")>>, 0)

\* Check 12: CFS row count
Check12 ==
    IF ~tbl["cfs"].exists THEN Skipped
    ELSE LET count == CountWhere("cfs", LAMBDA r : TRUE)
         IN IF Truthy(count) /\ count > CFS_ROWS_FLOOR
            THEN Outcome(<<Line(12, "PASS")>>, 0)
            ELSE Outcome(<<Line(12, "WARN")>>, 1)

\* Check 13: CFS date range and year coverage
Check13 ==
    IF ~tbl["cfs"].exists THEN Skipped
    ELSE LET min_yr == MinYear("cfs")
             max_yr == MaxYear("cfs")
         IN IF /\ Truthy(min_yr) /\ min_yr <= CFS_FIRST_YEAR
               /\ Truthy(max_yr) /\ max_yr >= CURRENT_YEAR - 1
            THEN Outcome(<<Line(13, "PASS"), Line(13, "INFO")>>, 0)
            ELSE Outcome(<<Line(13, "WARN"), Line(13, "INFO")>>, 1)

\* Check 14: CFS beat coverage
Check14 ==
    IF ~tbl["cfs"].exists THEN Skipped
    ELSE Outcome(<<Line(14, "INFO")>>, 0)

\* Check 15: Aggregation files
Check15 ==
    Outcome([i \in DOMAIN expected_aggs |->
                Line(15, IF aggFile[expected_aggs[i]].st # "absent"
                         THEN "PASS" ELSE "FAIL")],
            Cardinality({i \in DOMAIN expected_aggs :
                            aggFile[expected_aggs[i]].st = "absent"}))

\* the checks in the order validate() runs them
CHECKS ==
    <<Check1, Check2, Check3, Check4, Check5, Check6, Check7, Check8, Check9,
      Check10, Check11, Check12, Check13, Check14, Check15>>

RECURSIVE Printed(_)
\* everything the first k checks print
Printed(k) == IF k = 0 THEN <<>> ELSE Printed(k - 1) \o CHECKS[k].lines

RECURSIVE Counted(_)
\* issues after the first k checks
Counted(k) == IF k = 0 THEN 0 ELSE Counted(k - 1) + CHECKS[k].inc

\* validate(): runs the 15 checks and returns issues
ValidateAll ==
    /\ valpc = "idle"
    /\ report' = Printed(Len(CHECKS))
    /\ issues' = Counted(Len(CHECKS))
    /\ valpc' = "done"
    /\ UNCHANGED CURRENT_YEAR
    /\ UNCHANGED <<ingestVars, transformVars, buildVars, viewVars, queryVars>>

(***************************************************************************)
(* The files validate() finds.                                             *)
(***************************************************************************)
CheckDates(first) == {Null, first, first + 10000, 20250115, 20260115}

CheckCrimeRows ==
    {CheckedCrime("X1", "Theft", date, "People", 327) :
        date \in CheckDates(20210115)}
      \cup {CheckedCrime(uid, desc, 20210115, "People", 327) :
               uid \in {"X1", "X2"}, desc \in {"Theft", "Fraud"}}
      \cup {CheckedCrime("X1", "Theft", 20260115, cat, lat) :
               cat \in {"Property", "Society", NullText},
               lat \in {327, SD_LAT_MAX + 1, NullCoord}}

CheckArrestRows == {CheckedArrest(date) : date \in {Null, 20210115, 20260115}}

CheckCallRows ==
    {CheckedCall("E1", date, "521") : date \in CheckDates(20150115)}
      \cup {CheckedCall("E2", 20150115, beat) : beat \in {"521", NullText}}

\* the listed rows and the number of further rows one canonical file can hold
CheckInputs(d) ==
    CASE d = "crime" ->
           {Processed(s, b) : s \in SeqsUpTo(CheckCrimeRows, MaxCheckRows) \cup {<<>>},
                              b \in {0, CRIME_ROWS_FLOOR}}
      [] d = "arrests" ->
           {Processed(s, b) : s \in SeqsUpTo(CheckArrestRows, MaxCheckRows) \cup {<<>>},
                              b \in {0, ARRESTS_ROWS_FLOOR - 1, ARRESTS_ROWS_FLOOR}}
      [] d = "cfs" ->
           {Processed(s, b) : s \in SeqsUpTo(CheckCallRows, MaxCheckRows) \cup {<<>>},
                              b \in {0, CFS_ROWS_FLOOR}}

ExampleProcessed(d) == Processed(<<BulkRow(d)>>, 0)

\* AGGREGATED_DIR with the views of the domains in D
AggDir(D) ==
    [v \in AllViews |-> IF ViewDomain(v) \in D THEN CompleteFile(0) ELSE AbsentFile]

\* The output directories when validate() is called: one domain's file is
\* drawn from its inputs beside examples of the others and all 14 views, or
\* any of the canonical files and of the domains' views are missing.
InitValidate ==
    /\ \/ \E d \in Domains : \E f \in CheckInputs(d) :
             /\ tbl = [e \in Domains |-> IF e = d THEN f ELSE ExampleProcessed(e)]
             /\ aggFile = AggDir(Domains)
       \/ \E D, A \in SUBSET Domains :
             /\ tbl = [e \in Domains |->
                         IF e \in D THEN ExampleProcessed(e) ELSE NoProcessed]
             /\ aggFile = AggDir(A)
    /\ CURRENT_YEAR \in {2026, 2027}
    /\ report = <<>>
    /\ issues = 0
    /\ valpc = "idle"
    /\ procFile = [d \in Domains |->
                     IF tbl[d].exists THEN CompleteFile(0) ELSE AbsentFile]
    /\ bpc = "idle"
    /\ entry = "build"
    /\ rawDisk = {}
    /\ builds = 0
    /\ trace = <<>>
    /\ fileIssues = [check1 |-> 0, check15 |-> 0]
    /\ view = [v \in AllViews |-> <<>>]
    /\ vpc = "idle"
    /\ IngestUnused
    /\ TransformUnused
    /\ QueryUnused

NextValidate == ValidateAll

SpecValidate == InitValidate /\ [][NextValidate]_vars

\* C21: the integer validate() returns equals the number of results it
\* reported with status WARN or FAIL; PASS and INFO results never count.
C21_IssuesCountWarnAndFail ==
    valpc = "done" =>
      issues = Cardinality({i \in DOMAIN report :
                              report[i].status \in {"WARN", "FAIL"}})

\* the natural key of a row of a canonical table that has one
NaturalKey(d, r) ==
    CASE d = "crime" -> <<r.incidentuid, r.offense_description>>
      [] d = "cfs" -> <<r.incident_num>>

\* some natural key of d's canonical table is shared by two or more rows
HasDuplicateKey(d) ==
    \E i, j \in DOMAIN tbl[d].rows :
        i # j /\ NaturalKey(d, tbl[d].rows[i]) = NaturalKey(d, tbl[d].rows[j])

\* the checks of validate() that look for duplicate keys in d's table:
\* Check 9 for crime, none for calls
DedupChecks(d) == IF d = "crime" THEN {9} ELSE {}

\* C22: for the crime and the calls table, the duplicate-key check reports
\* FAIL when some natural key is shared by two or more rows and PASS
\* otherwise, in particular for an empty table.
C22_DuplicateKeysFail ==
    valpc = "done" =>
      \A d \in {"crime", "cfs"} : tbl[d].exists =>
         \E k \in DedupChecks(d) : \E i \in DOMAIN report :
            report[i] = Line(k, IF HasDuplicateKey(d) THEN "FAIL" ELSE "PASS")

\* the part of C22 that holds: Check 9 over the crime table
CrimeDuplicateKeysFail ==
    (valpc = "done" /\ tbl["crime"].exists) =>
       \E i \in DOMAIN report :
          report[i] = Line(9, IF HasDuplicateKey("crime") THEN "FAIL" ELSE "PASS")

\* the date-range check of each domain: Check 3, Check 11, Check 13
DateRangeCheck(d) ==
    CASE d = "crime" -> 3 [] d = "arrests" -> 11 [] d = "cfs" -> 13

\* the years of d's table cover the expected range; the arrests table has
\* no earliest-expected year, so only its latest year is constrained
RangeCovered(d) ==
    /\ MinYear(d) # Null /\ MaxYear(d) # Null
    /\ d = "crime" => MinYear(d) <= CRIME_FIRST_YEAR
    /\ d = "cfs" => MinYear(d) <= CFS_FIRST_YEAR
    /\ MaxYear(d) >= CURRENT_YEAR - 1

\* the results of check k in the report
ResultsOf(k) == {report[i].status : i \in {j \in DOMAIN report : report[j].check = k}}

\* C27: for each canonical table that exists (crime, arrests, calls) the
\* date-range check adds one issue unless the minimum year is at most the
\* earliest-expected year (2021 for crime, 2015 for calls) and the maximum
\* year is at least the current year minus 1; a table with no parseable
\* year always fails the check.
C27_DateRangeCounted ==
    valpc = "done" =>
      \A d \in Domains : tbl[d].exists =>
         IF RangeCovered(d)
         THEN ResultsOf(DateRangeCheck(d)) \cap {"WARN", "FAIL"} = {}
         ELSE ResultsOf(DateRangeCheck(d)) \cap {"WARN", "FAIL"} # {}

\* the part of C27 that holds: crime and calls
CrimeAndCallsDateRangeCounted ==
    valpc = "done" =>
      \A d \in {"crime", "cfs"} : tbl[d].exists =>
         IF RangeCovered(d)
         THEN ResultsOf(DateRangeCheck(d)) \cap {"WARN", "FAIL"} = {}
         ELSE ResultsOf(DateRangeCheck(d)) \cap {"WARN", "FAIL"} # {}

----------------------------------------------------------------------------
(***************************************************************************)
(* Further properties of the canonicalizer.                                *)
(***************************************************************************)
\* the lookup table ref has an entry for code in its column col
HasEntry(ref, col, code) == \E j \in DOMAIN ref.rows : ref.rows[j][col] = code

\* C23: canonicalization of calls succeeds with each lookup file present or
\* absent; with the lookup absent every description equals the raw code,
\* with it present a code without an entry keeps the raw code as description;
\* and the lookups never change which calls appear: one row per raw key.
C23_LookupsOptional ==
    (tpc \in {"agg", "done"} /\ rawCfs # <<>>) =>
       LET C == canon["cfs"]
           keys == {CfsKey(rawCfs[i]) : i \in DOMAIN rawCfs}
       IN /\ C.exists
          /\ \A r \in DOMAIN C.rows :
                /\ ~HasEntry(refCallType, "CALL_TYPE", r.call_type)
                      => r.call_type_desc = r.call_type
                /\ ~HasEntry(refDispo, "DISPO_CODE", r.disposition)
                      => r.dispo_desc = r.disposition
          /\ {r.incident_num : r \in DOMAIN C.rows} = keys
          /\ BagSize(C.rows) = Cardinality(keys)

\* The call-type lookup is present without an entry for code 1151, the
\* disposition lookup is absent, and a call with code 1151 is canonical.
C23_Witness ==
    /\ tpc = "done"
    /\ HasCallType /\ ~HasDispo
    /\ \E r \in DOMAIN canon["cfs"].rows :
          /\ r.call_type = "1151" /\ r.call_type_desc = "1151"
          /\ r.dispo_desc = r.disposition

\* the canonical crime row made from raw row x: unparseable date and age are
\* missing, so are the fields derived from the date, the rest is as in x
KeptCrime(r, x) ==
    /\ r.incidentuid = x.incidentuid
    /\ r.offense_description = x.cibrs_offense_description
    /\ r.agency = x.agency
    /\ TryCastDate(x.incident_date) = Null
          => r.incident_date = Null /\ r.year = Null /\ r.month = Null
    /\ TryCastInt(x.victim_age) = Null => r.victim_age = Null

\* the canonical call made from csv row x
KeptCall(r, x) ==
    /\ r.incident_num = x.INCIDENT_NUM
    /\ r.call_type = x.CALL_TYPE
    /\ r.disposition = x.DISPOSITION
    /\ TryCastTimestamp(x.DATE_TIME) = Null
          => r.call_timestamp = Null /\ r.call_date = Null /\ r.year = Null

\* C24: a raw row with an unparseable value in a coerced field never aborts
\* canonicalization and is never dropped for it: its natural key is in the
\* canonical table, and every canonical row is one raw row of its key with
\* the unparseable field and the fields derived from it missing and the
\* other fields intact.
C24_UnparseableKept ==
    tpc \in {"agg", "done"} =>
       /\ \A i \in DOMAIN rawCrime :
             \E r \in DOMAIN canon["crime"].rows :
                 <<r.incidentuid, r.offense_description>> = CrimeKey(rawCrime[i])
       /\ \A r \in DOMAIN canon["crime"].rows :
             \E i \in DOMAIN rawCrime : KeptCrime(r, rawCrime[i])
       /\ csvCfs # <<>> =>
             /\ canon["cfs"].exists
             /\ \A i \in DOMAIN csvCfs :
                   \E r \in DOMAIN canon["cfs"].rows :
                       r.incident_num = CfsKey(csvCfs[i])
             /\ \A r \in DOMAIN canon["cfs"].rows :
                   \E i \in DOMAIN csvCfs : KeptCall(r, csvCfs[i])

\* The part of C24 about the crime table, which the code keeps.
CrimeUnparseableKept ==
    tpc \in {"agg", "done"} =>
       /\ \A i \in DOMAIN rawCrime :
             \E r \in DOMAIN canon["crime"].rows :
                 <<r.incidentuid, r.offense_description>> = CrimeKey(rawCrime[i])
       /\ \A r \in DOMAIN canon["crime"].rows :
             \E i \in DOMAIN rawCrime : KeptCrime(r, rawCrime[i])

----------------------------------------------------------------------------
(***************************************************************************)
(* Further properties of the Source Fetcher.                               *)
(***************************************************************************)
\* the fetch of soda source s is in its while loop / has left it for the write
Paging(s) == pc = "ingest" /\ idx = s /\ fpc = "page"
Writing(s) == pc = "ingest" /\ idx = s /\ fpc = "write"

\* N: the rows of the remote dataset of s that match its filter
RemoteCount(s) == Len(Matching(s, WhereOf(s)))

\* In the loop one request was made per page passed; once the loop is left
\* with every request answered, floor(N / P) + 1 requests were made, the last
\* one answered by the short (possibly empty) page.
RequestCount ==
    \A s \in {GROUP_A, GROUP_B} :
        /\ Paging(s) =>
              /\ offset <= RemoteCount(s)
              /\ Len(reqs[s]) * PageSize = offset
        /\ (Writing(s) \/ Saved(s)) =>
              /\ Len(reqs[s]) = (RemoteCount(s) \div PageSize) + 1
              /\ \A i \in 1..Len(reqs[s]) : reqs[s][i].status = 200
              /\ reqs[s][Len(reqs[s])].got = RemoteCount(s) % PageSize

\* C26: when every request succeeds the pagination loop terminates, after
\* exactly floor(N / P) + 1 requests (an extra empty page when N is a
\* positive multiple of P, one request when N = 0), and the artifact is then
\* written: a fetch in its loop ends saved unless a request fails or the
\* process dies in the write.
C26_PaginationTerminates ==
    /\ []RequestCount
    /\ \A s \in {GROUP_A, GROUP_B} :
          Paging(s) ~> (Saved(s) \/ RaisedAt(s) \/ pc = "crashed")

\* Group A holds N = 2P rows and was saved after three requests, the last
\* answered by an empty page; Group B's filter matches P rows: two requests.
C26_Witness ==
    /\ n = 2 * PageSize
    /\ Saved(GROUP_A) /\ Saved(GROUP_B)
    /\ Len(reqs[GROUP_A]) = 3 /\ reqs[GROUP_A][3].got = 0
    /\ Len(reqs[GROUP_B]) = 2
    /\ fs[GROUP_A].data = JsonDumps(Remote(GROUP_A))

\* sorted(RAW_DIR.glob("cfs_*.csv")): the per-year files _transform_cfs reads
\* when build.main calls transform() after ingest() has returned
CfsFilesRead == {s \in CfsYearSources : fs[s].exists}

\* the per-year artifacts in the list ingest() returned
CfsFilesReturned == Range(paths) \cap CfsYearSources

\* C30: in every pipeline run the per-year calls files the canonicalizer
\* reads are exactly the per-year artifacts ingest returned in that run; a
\* year answered "not available yet" contributes no file, also under
\* force-refresh when a file for it was cached by an earlier run.
C30_ReadsWhatIngestReturned ==
    pc = "done" => CfsFilesRead = CfsFilesReturned

\* Without an earlier cached copy the two sets agree: a year answered 403
\* leaves no file.
ReadsWhatIngestReturnedFirstRun ==
    (pc = "done" /\ \A s \in CfsYearSources : ~fsAtStart[s].exists)
        => CfsFilesRead = CfsFilesReturned

----------------------------------------------------------------------------
(***************************************************************************)
(* The query layer: api/queries.py and dashboard/app.py.                   *)
(*                                                                         *)
(* A statement is a sequence of symbols.  The words the code writes        *)
(* (keywords, column names, operators) are one symbol each; a string       *)
(* supplied by the caller is a sequence of symbols of Alphabet.  None and  *)
(* the empty string are both <<>>: the code tests strings by truth value   *)
(* only.  None for a number is Null.                                       *)
(***************************************************************************)
\* the longest string a caller supplies
MaxStrLen == 2
\* the largest number of values selected in one dashboard filter
MaxSel == 2

\* chr(39)
QUOTE == "'"

\* a letter, the quote, and the text " AND " taken as one symbol
Alphabet == {"a", QUOTE, "AND"}
Strings == CharSeqs(Alphabet, MaxStrLen)

\* selections of a multiselect: any one value of Strings, possibly among
\* plain values
Selections ==
    {<<>>} \cup
    UNION {{[i \in 1..k |-> IF i = j THEN s ELSE <<"a">>] :
               j \in 1..k, s \in Strings} : k \in 1..MaxSel}

DIGITS == <<"0", "1", "2", "3", "4", "5", "6", "7", "8", "9">>

\* {i} in an f-string, i >= 0
RECURSIVE IntText(_)
IntText(i) ==
    IF i < 10 THEN <<DIGITS[i + 1]>>
    ELSE IntText(i \div 10) \o <<DIGITS[(i % 10) + 1]>>

\* s.replace(c, by) for a one-symbol c
RECURSIVE ReplaceChar(_, _, _)
ReplaceChar(s, c, by) ==
    IF s = <<>> THEN <<>>
    ELSE (IF Head(s) = c THEN by ELSE <<Head(s)>>)
            \o ReplaceChar(Tail(s), c, by)

\* a faulty variant of Escaped: the string is placed as it is
Escaped_AsIs(s) == s

\* s.replace(chr(39), chr(39)*2)
Escaped(s) == ReplaceChar(s, QUOTE, <<QUOTE, QUOTE>>)

\* '{s.replace(chr(39), chr(39)*2)}'
Quoted(s) == <<QUOTE>> \o Escaped(s) \o <<QUOTE>>

\* _q(where, condition)
Q(where, condition) ==
    IF where = <<>> THEN <<"WHERE">> \o condition
    ELSE where \o <<"AND">> \o condition

YEAR_COL == <<"year">>
YEAR_OF_MONTH_START == <<"YEAR(", "month_start", ")">>

\* _where(year_min, year_max, agency, crime_against, city, has_agency=...,
\*        has_crime_against=..., has_city=..., year_col=...)
Where(year_min, year_max, agency, crime_against, city, has_agency, has_crime_against, has_city, year_col) ==
    LET w0 == <<>>
        w1 == IF year_min # Null
              THEN Q(w0, year_col \o <<">=">> \o IntText(year_min)) ELSE w0
        w2 == IF year_max # Null
              THEN Q(w1, year_col \o <<"<=">> \o IntText(year_max)) ELSE w1
        w3 == IF agency # <<>> /\ has_agency
              THEN Q(w2, <<"agency_short", "=">> \o Quoted(agency)) ELSE w2
        w4 == IF crime_against # <<>> /\ has_crime_against
              THEN Q(w3, <<"crime_against", "=">> \o Quoted(crime_against))
              ELSE w3
        w5 == IF city # <<>> /\ has_city
              THEN Q(w4, <<"city", "=">> \o Quoted(city)) ELSE w4
    IN w5

\* w = _q(w, f"priority = {priority}") when priority is not None
WithPriority(w, priority) ==
    IF priority # Null THEN Q(w, <<"priority", "=">> \o IntText(priority))
    ELSE w

\* the query functions, the view each reads, and the filters each takes
QUERY_FUNCTIONS ==
    <<[fn |-> "get_overview", view |-> "yearly_summary",
       years |-> TRUE, agency |-> TRUE, crime_against |-> FALSE, priority |-> FALSE],
      [fn |-> "get_trends", view |-> "crime_overview_monthly",
       years |-> TRUE, agency |-> TRUE, crime_against |-> TRUE, priority |-> FALSE],
      [fn |-> "get_crime_types", view |-> "crime_by_type",
       years |-> TRUE, agency |-> FALSE, crime_against |-> TRUE, priority |-> FALSE],
      [fn |-> "get_geography", view |-> "crime_by_zip",
       years |-> TRUE, agency |-> FALSE, crime_against |-> TRUE, priority |-> FALSE],
      [fn |-> "get_agencies", view |-> "crime_by_agency",
       years |-> TRUE, agency |-> FALSE, crime_against |-> TRUE, priority |-> FALSE],
      [fn |-> "get_victims", view |-> "victim_demographics",
       years |-> TRUE, agency |-> FALSE, crime_against |-> TRUE, priority |-> FALSE],
      [fn |-> "get_domestic_violence", view |-> "domestic_violence",
       years |-> TRUE, agency |-> TRUE, crime_against |-> FALSE, priority |-> FALSE],
      [fn |-> "get_temporal_patterns", view |-> "temporal_patterns",
       years |-> TRUE, agency |-> FALSE, crime_against |-> TRUE, priority |-> FALSE],
      [fn |-> "get_cities", view |-> "crime_by_city",
       years |-> TRUE, agency |-> FALSE, crime_against |-> TRUE, priority |-> FALSE],
      [fn |-> "get_arrests", view |-> "arrests_by_type",
       years |-> TRUE, agency |-> TRUE, crime_against |-> FALSE, priority |-> FALSE],
      [fn |-> "get_calls_for_service", view |-> "cfs_monthly",
       years |-> TRUE, agency |-> FALSE, crime_against |-> FALSE, priority |-> TRUE],
      [fn |-> "get_calls_by_beat", view |-> "cfs_by_beat",
       years |-> TRUE, agency |-> FALSE, crime_against |-> FALSE, priority |-> TRUE],
      [fn |-> "get_calls_temporal", view |-> "cfs_temporal",
       years |-> FALSE, agency |-> FALSE, crime_against |-> FALSE, priority |-> TRUE]>>

\* w of the query function r.fn called with the arguments of r
QueryWhere(r) ==
    LET W(agency, crime_against, has_agency, has_crime_against, year_col) ==
            Where(r.year_min, r.year_max, agency, crime_against, <<>>,
                  has_agency, has_crime_against, FALSE, year_col)
    IN CASE r.fn = "get_overview" ->
              W(r.agency, <<>>, TRUE, TRUE, YEAR_COL)
         [] r.fn = "get_trends" ->
              W(r.agency, r.crime_against, TRUE, TRUE, YEAR_OF_MONTH_START)
         [] r.fn \in {"get_crime_types", "get_geography", "get_victims",
                      "get_temporal_patterns", "get_cities"} ->
              W(<<>>, r.crime_against, FALSE, TRUE, YEAR_COL)
         [] r.fn = "get_agencies" ->
              W(<<>>, r.crime_against, TRUE, TRUE, YEAR_COL)
         [] r.fn = "get_domestic_violence" ->
              LET w == W(<<>>, <<>>, TRUE, FALSE, YEAR_COL)
              IN IF r.agency # <<>>
                 THEN Q(w, <<"agency", "=">> \o Quoted(r.agency)) ELSE w
         [] r.fn = "get_arrests" ->
              W(r.agency, <<>>, TRUE, FALSE, YEAR_COL)
         [] r.fn \in {"get_calls_for_service", "get_calls_by_beat"} ->
              WithPriority(W(<<>>, <<>>, FALSE, FALSE, YEAR_COL), r.priority)
         [] r.fn = "get_calls_temporal" ->
              IF r.priority # Null
              THEN <<"WHERE", "priority", "=">> \o IntText(r.priority)
              ELSE <<>>

\* SELECT ... FROM '<view>' {w} <rest of the template>
Statement(v, w, rest) == <<"SELECT", "FROM", v>> \o w \o rest

\* ", ".join(f"'{a.replace(chr(39), chr(39)*2)}'" for a in list)
RECURSIVE JoinQuoted(_)
JoinQuoted(list) ==
    IF Len(list) = 1 THEN Quoted(list[1])
    ELSE Quoted(Head(list)) \o <<",">> \o JoinQuoted(Tail(list))

\* " AND ".join(parts)
RECURSIVE JoinAnd(_)
JoinAnd(parts) ==
    IF Len(parts) = 1 THEN parts[1]
    ELSE Head(parts) \o <<"AND">> \o JoinAnd(Tail(parts))

\* _where_clause(yr, agencies_list, categories_list, cities_list,
\*               has_agency=..., has_crime_against=..., has_city=..., year_col=...)
WhereClause(yr, agencies_list, categories_list, cities_list, has_agency, has_crime_against, has_city, year_col) ==
    LET In(col, list) == <<<<col, "IN", "(">> \o JoinQuoted(list) \o <<")">>>>
        parts == <<year_col \o <<">=">> \o IntText(yr[1]),
                   year_col \o <<"<=">> \o IntText(yr[2])>>
                 \o (IF agencies_list # <<>> /\ has_agency
                     THEN In("agency_short", agencies_list) ELSE <<>>)
                 \o (IF categories_list # <<>> /\ has_crime_against
                     THEN In("crime_against", categories_list) ELSE <<>>)
                 \o (IF cities_list # <<>> /\ has_city
                     THEN In("city", cities_list) ELSE <<>>)
    IN <<"WHERE">> \o JoinAnd(parts)

\* w.replace("agency_short IN", "agency IN")
RECURSIVE RenameAgency(_)
RenameAgency(w) ==
    IF Len(w) < 2 THEN w
    ELSE IF w[1] = "agency_short" /\ w[2] = "IN"
         THEN <<"agency", "IN">> \o RenameAgency(Tail(Tail(w)))
         ELSE <<Head(w)>> \o RenameAgency(Tail(w))

GROUP_BY == <<"GROUP BY">>

\* The statements the dashboard builds with _where_clause, in script order:
\* the view read, the keyword arguments of the _where_clause call, whether
\* the predicate goes through replace("agency_short IN", "agency IN") when
\* agencies are selected, and the template text after the predicate.
DASHBOARD_STATEMENTS ==
    LET S(name, v, has_agency, has_crime_against, year_col, rename, rest) ==
          [name |-> name, view |-> v, has_agency |-> has_agency,
           has_crime_against |-> has_crime_against, year_col |-> year_col,
           rename |-> rename, rest |-> rest]
    IN <<S("top_offenses", "crime_by_type", FALSE, TRUE, YEAR_COL, FALSE, GROUP_BY),
         S("agency_df", "crime_by_agency", TRUE, TRUE, YEAR_COL, FALSE, GROUP_BY),
         S("map_df", "map_points", FALSE, TRUE, YEAR_COL, TRUE, <<"ORDER BY">>),
         S("monthly", "crime_overview_monthly", TRUE, TRUE, YEAR_OF_MONTH_START, FALSE, GROUP_BY),
         S("yoy_df", "crime_overview_monthly", TRUE, TRUE, YEAR_OF_MONTH_START, FALSE, GROUP_BY),
         S("seasonal", "temporal_patterns", FALSE, TRUE, YEAR_COL, FALSE, GROUP_BY),
         S("dow_df", "temporal_patterns", FALSE, TRUE, YEAR_COL, FALSE, GROUP_BY),
         S("top_zips", "crime_by_zip", FALSE, TRUE, YEAR_COL, FALSE, GROUP_BY),
         S("bottom_zips", "crime_by_zip", FALSE, TRUE, YEAR_COL, FALSE, <<"GROUP BY", "HAVING">>),
         S("city_df", "crime_by_city", FALSE, TRUE, YEAR_COL, FALSE, GROUP_BY),
         S("cat_totals", "crime_by_type", FALSE, TRUE, YEAR_COL, FALSE, GROUP_BY),
         S("groups", "crime_by_type", FALSE, TRUE, YEAR_COL, FALSE,
           <<"WHERE", "offense_group", "IS NOT NULL">> \o GROUP_BY),
         S("cat_trend", "crime_by_type", FALSE, TRUE, YEAR_COL, FALSE, GROUP_BY),
         S("detail", "crime_by_type", FALSE, TRUE, YEAR_COL, FALSE, GROUP_BY),
         S("arrests_df", "arrests_by_type", TRUE, FALSE, YEAR_COL, FALSE, GROUP_BY),
         S("age_df", "victim_demographics", FALSE, TRUE, YEAR_COL, FALSE,
           <<"WHERE", "age_bin", "!=", QUOTE, "Unknown", QUOTE>> \o GROUP_BY),
         S("race_df", "victim_demographics", FALSE, TRUE, YEAR_COL, FALSE,
           <<"WHERE", "victim_race", "IS NOT NULL">> \o GROUP_BY),
         S("sex_df", "victim_demographics", FALSE, TRUE, YEAR_COL, FALSE,
           <<"WHERE", "victim_sex", "IS NOT NULL">> \o GROUP_BY),
         S("vic_trend", "victim_demographics", FALSE, TRUE, YEAR_COL, FALSE, GROUP_BY),
         S("dv_df", "domestic_violence", TRUE, FALSE, YEAR_COL, TRUE, GROUP_BY),
         S("high_zips", "crime_by_zip", FALSE, TRUE, YEAR_COL, FALSE, GROUP_BY),
         S("low_zips", "crime_by_zip", FALSE, TRUE, YEAR_COL, FALSE, <<"GROUP BY", "HAVING">>)>>

\* the result of the _where_clause call of dashboard statement s under the
\* sidebar selection of r (has_city is False at every call)
DashboardWhere(s, r) ==
    WhereClause(<<r.year_min, r.year_max>>, r.agencies, r.categories, r.cities,
                s.has_agency, s.has_crime_against, FALSE, s.year_col)

\* the predicate spliced into the template of s
DashboardPredicate(s, r) ==
    IF s.rename /\ r.agencies # <<>> THEN RenameAgency(DashboardWhere(s, r))
    ELSE DashboardWhere(s, r)

(***************************************************************************)
(* Inputs and actions of the query layer.                                  *)
(***************************************************************************)
YearInputs == {Null, 2021}
PriorityInputs == {Null, 1}

\* the calls of query function f: filters f does not take stay None
ApiCalls(f) ==
    {[layer |-> "api", fn |-> f.fn,
      year_min |-> ymin, year_max |-> ymax,
      agency |-> a, crime_against |-> c, priority |-> p,
      agencies |-> <<>>, categories |-> <<>>, cities |-> <<>>] :
        ymin \in (IF f.years THEN YearInputs ELSE {Null}),
        ymax \in (IF f.years THEN {Null, 2025} ELSE {Null}),
        a \in (IF f.agency THEN Strings ELSE {<<>>}),
        c \in (IF f.crime_against THEN Strings ELSE {<<>>}),
        p \in (IF f.priority THEN PriorityInputs ELSE {Null})}

\* the sidebar selections: one filter holds any selection, the others hold
\* nothing or one plain value
SidebarSelections ==
    LET Plain == {<<>>, <<<<"a">>>>}
    IN (Selections \X Plain \X Plain) \cup (Plain \X Selections \X Plain)
          \cup (Plain \X Plain \X Selections)

Renders(s) ==
    {[layer |-> "dashboard", fn |-> s.name,
      year_min |-> 2021, year_max |-> 2025,
      agency |-> <<>>, crime_against |-> <<>>, priority |-> Null,
      agencies |-> sel[1], categories |-> sel[2], cities |-> sel[3]] :
        sel \in SidebarSelections}

\* One call is made: the arguments of a query function, or a dashboard
\* statement and the sidebar selection it is built under.
InitQuery ==
    /\ \/ \E i \in DOMAIN QUERY_FUNCTIONS : req \in ApiCalls(QUERY_FUNCTIONS[i])
       \/ \E i \in DOMAIN DASHBOARD_STATEMENTS :
             req \in Renders(DASHBOARD_STATEMENTS[i])
    /\ sql = NoStatement
    /\ IngestUnused
    /\ TransformUnused
    /\ BuildUnused
    /\ ViewsUnused
    /\ CheckUnused

\* The query function req.fn runs: it builds its predicate and its statement.
CallQuery ==
    /\ req.layer = "api" /\ sql = NoStatement
    /\ \E i \in DOMAIN QUERY_FUNCTIONS :
          /\ QUERY_FUNCTIONS[i].fn = req.fn
          /\ sql' = [view |-> QUERY_FUNCTIONS[i].view,
                     where |-> QueryWhere(req),
                     text |-> Statement(QUERY_FUNCTIONS[i].view,
                                        QueryWhere(req), GROUP_BY)]
    /\ UNCHANGED req
    /\ UNCHANGED <<ingestVars, transformVars, buildVars, viewVars, checkVars>>

\* The dashboard script builds its statement req.fn under the selection.
RenderStatement ==
    /\ req.layer = "dashboard" /\ sql = NoStatement
    /\ \E i \in DOMAIN DASHBOARD_STATEMENTS :
          LET s == DASHBOARD_STATEMENTS[i]
          IN /\ s.name = req.fn
             /\ sql' = [view |-> s.view,
                        where |-> DashboardWhere(s, req),
                        text |-> Statement(s.view, DashboardPredicate(s, req),
                                           s.rest)]
    /\ UNCHANGED req
    /\ UNCHANGED <<ingestVars, transformVars, buildVars, viewVars, checkVars>>

NextQuery == CallQuery \/ RenderStatement

SpecQuery == InitQuery /\ [][NextQuery]_vars

----------------------------------------------------------------------------
(***************************************************************************)
(* Properties of the query layer.                                          *)
(***************************************************************************)
\* what stands for a string literal in the words of a statement
LITERAL == "<literal>"

\* con.execute(sql): how the database reads the symbols t from position i on.
\* A quote opens a literal; inside a literal two quotes in a row are one
\* quote character and a single quote closes the literal.  out: the words
\* outside literals, each literal replaced by LITERAL; lits: the strings the
\* literals denote; open: the text ends inside a literal.
RECURSIVE Scan(_, _, _, _)
Scan(t, i, inLit, acc) ==
    IF i > Len(t) THEN [out |-> acc.out, lits |-> acc.lits, open |-> inLit]
    ELSE IF ~inLit
         THEN IF t[i] = QUOTE
              THEN Scan(t, i + 1, TRUE, [acc EXCEPT !.cur = <<>>])
              ELSE Scan(t, i + 1, FALSE, [acc EXCEPT !.out = Append(@, t[i])])
         ELSE IF t[i] # QUOTE
              THEN Scan(t, i + 1, TRUE, [acc EXCEPT !.cur = Append(@, t[i])])
              ELSE IF i < Len(t) /\ t[i + 1] = QUOTE
                   THEN Scan(t, i + 2, TRUE,
                             [acc EXCEPT !.cur = Append(@, QUOTE)])
                   ELSE Scan(t, i + 1, FALSE,
                             [acc EXCEPT !.lits = Append(@, acc.cur),
                                         !.out = Append(@, LITERAL)])

Read(t) == Scan(t, 1, FALSE, [out |-> <<>>, lits |-> <<>>, cur |-> <<>>])

\* the number of symbols of seq equal to x
Occurrences(seq, x) == Cardinality({i \in DOMAIN seq : seq[i] = x})

\* the conditions of predicate w: one more than the ANDs that join them
Conditions(w) ==
    IF w = <<>> THEN 0 ELSE Occurrences(Read(w).out, "AND") + 1

\* the call r with every supplied string replaced by a plain one
Plain(s) == IF s = <<>> THEN <<>> ELSE <<"a">>
PlainCall(r) ==
    [r EXCEPT !.agency = Plain(@), !.crime_against = Plain(@),
              !.agencies = [i \in DOMAIN @ |-> <<"a">>],
              !.categories = [i \in DOMAIN @ |-> <<"a">>],
              !.cities = [i \in DOMAIN @ |-> <<"a">>]]

\* the predicate the builders return for call r
Built(r) ==
    IF r.layer = "api" THEN QueryWhere(r)
    ELSE DashboardWhere(CHOOSE s \in Range(DASHBOARD_STATEMENTS) : s.name = r.fn, r)

\* the strings of call r that its predicate holds, in the order of the
\* conditions
Placed(r) ==
    IF r.layer = "api"
    THEN LET f == CHOOSE g \in Range(QUERY_FUNCTIONS) : g.fn = r.fn
         IN (IF f.agency /\ r.agency # <<>> THEN <<r.agency>> ELSE <<>>)
            \o (IF f.crime_against /\ r.crime_against # <<>>
                THEN <<r.crime_against>> ELSE <<>>)
    ELSE LET s == CHOOSE g \in Range(DASHBOARD_STATEMENTS) : g.name = r.fn
         IN (IF s.has_agency THEN r.agencies ELSE <<>>)
            \o (IF s.has_crime_against THEN r.categories ELSE <<>>)

ViewColumns(v) ==
    CASE v = "crime_overview_monthly" ->
            {"month_start", "agency_short", "crime_against", "total_incidents"}
      [] v = "crime_by_type" ->
            {"offense_group", "offense_description", "crime_against", "year", "count"}
      [] v = "crime_by_zip" -> {"zip_code", "city", "year", "crime_against", "count"}
      [] v = "crime_by_agency" ->
            {"agency_short", "year", "crime_against", "count", "dv_count"}
      [] v = "victim_demographics" ->
            {"age_bin", "victim_race", "victim_sex", "crime_against", "year", "count"}
      [] v = "domestic_violence" ->
            {"agency", "offense_group", "victim_sex", "year", "month_start", "count"}
      [] v = "temporal_patterns" -> {"dow", "month", "year", "crime_against", "count"}
      [] v = "map_points" ->
            {"lat", "lng", "offense_group", "crime_against", "agency", "year", "city"}
      [] v = "yearly_summary" ->
            {"year", "total", "person_crimes", "property_crimes", "society_crimes",
             "dv_total", "stolen_vehicle_total"}
      [] v = "crime_by_city" -> {"city", "year", "crime_against", "count"}
      [] v = "arrests_by_type" ->
            {"offense_description", "agency_short", "year", "month_start", "count"}
      [] v = "cfs_monthly" ->
            {"month_start", "year", "call_type_desc", "priority", "total_calls"}
      [] v = "cfs_by_beat" ->
            {"beat", "year", "call_type_desc", "priority", "disposition", "total_calls"}
      [] v = "cfs_temporal" -> {"dow", "hour", "priority", "total_calls"}

\* the words of a predicate that are not column names
NotColumns ==
    {"WHERE", "AND", "=", ">=", "<=", "!=", "IN", "(", ")", ",", "YEAR(",
     "IS NOT NULL", LITERAL} \cup Range(DIGITS)

\* the columns predicate w names
ColumnsNamed(w) == Range(Read(w).out) \ NotColumns

\* C28: for every query function and every combination of its filters, each
\* column named in the generated predicate is a column of the view the
\* function reads.
C28_PredicateColumnsInView ==
    (sql # NoStatement /\ req.layer = "api") =>
        ColumnsNamed(sql.where) \subseteq ViewColumns(sql.view)

\* Every call other than the overview filtered by agency names columns of
\* its view only.
OtherQueriesNameViewColumns ==
    (/\ sql # NoStatement /\ req.layer = "api"
     /\ ~(req.fn = "get_overview" /\ req.agency # <<>>)) =>
        ColumnsNamed(sql.where) \subseteq ViewColumns(sql.view)

\* C29: every statement the dashboard builds around a _where_clause result
\* holds exactly one WHERE; the conditions of the template are joined with
\* AND.
C29_OneWhere ==
    (sql # NoStatement /\ req.layer = "dashboard") =>
        Occurrences(Read(sql.text).out, "WHERE") = 1

\* The dashboard statements whose template adds no condition hold one WHERE.
PlainTemplatesOneWhere ==
    (/\ sql # NoStatement /\ req.layer = "dashboard"
     /\ req.fn \notin {"groups", "age_df", "race_df", "sex_df"}) =>
        Occurrences(Read(sql.text).out, "WHERE") = 1

====
